---- MODULE Spec2Model ----
(***************************************************************************)
(* x11q: the X11 protocol engines of the repository.                       *)
(*                                                                         *)
(*   native  src/src/display.rs       ClientHandler + DisplayState         *)
(*   test    src/src/test_server.rs   TestServer                           *)
(*   web     src/x11q-web/src/*.rs    X11Server behind process_x11_data    *)
(*                                                                         *)
(* A behaviour is a run of one of the three engines (impl) serving one     *)
(* client connection.  Bytes are naturals 0..255, byte strings are         *)
(* sequences, and offsets are written 0-based as in the source.            *)
(***************************************************************************)
EXTENDS Integers, Sequences, FiniteSets, TLC

VARIABLES
    impl,       \* which engine this run is: "native", "test" or "web"
    scenario,   \* which request alphabet the client of this run uses
    wire,       \* client side: bytes written by the client, not yet read
    sent,       \* client side: every frame written so far, in order
    nread,      \* client side: number of bytes the engine has read
    pending,    \* handle_client: `pending` (native, test); lib.rs: BUFFER (web)
    connected,  \* test_server.rs handle_client: local `connected`
    handler,    \* display.rs: ClientHandler
    state,      \* display.rs: DisplayState
    tserver,    \* test_server.rs: TestServer
    server,     \* x11q-web server.rs: X11Server
    out,        \* replies written by the last step, one byte string each
    last,       \* what the last step did (observation of the codec)
    status,     \* "running", or "panicked" once a handler has panicked
    overflow_checks, \* build profile: arithmetic overflow panics (TRUE) or wraps
    closed,     \* the connections that have ended: the frames each had sent and
                \* the atom table (name -> id) its engine held at the end
    tasks,      \* display.rs, connections served at the same time: the position
                \* of each handle_client task and of the render loop, and the
                \* holders of the DisplayState lock
    delivery,   \* x11q-web: the events pushed on the queue since the last
                \* get_pending_events, the bytes that call returned, and
                \* the number of input events the page has raised
    bridge,     \* web.rs: the X11Bridge channels, and the X11 client
                \* connections with what was written to each socket
    mirror      \* mirror.rs: the input stream from run_mirror_client to
                \* handle_input, what was written and what was decoded

vars == <<impl, scenario, wire, sent, nread, pending, connected, handler,
          state, tserver, server, out, last, status, overflow_checks, closed, tasks,
          delivery, bridge, mirror>>

----------------------------------------------------------------------------
(* Bounds of the model *)

\* frames the client writes in a run, over all its connections
MaxFrames == 4
\* connections the client opens in a run, one after the other
MaxConnections == 2
\* frames of a run that maps windows: creating two nested windows and
\* mapping both takes five
MaxMappingFrames == 5
\* frames each of the connections served at the same time reads (the setup
\* frame and two requests)
MaxTaskFrames == 3
\* input events the page raises in a run
MaxInputs == 2
\* input events of a run that presses and releases modifier keys: two keys of
\* a modifier pressed and one released takes three
MaxKeyEvents == 3
\* X11 client connections the web bridge accepts in a run
MaxBridgeConnections == 2
\* chunks the X11 clients of the web bridge write in a run
MaxBridgeChunks == 2
\* input messages the mirror client writes in a run
MaxMirrorMessages == 3
ScreenWidth == 2
ScreenHeight == 2

----------------------------------------------------------------------------
(* Byte-level helpers: the integer conversions of the Rust standard library *)

Min(a, b) == IF a < b THEN a ELSE b
Max(a, b) == IF a > b THEN a ELSE b

Zeros(n) == [i \in 1..n |-> 0]
Fill(n, b) == [i \in 1..n |-> b]

\* u16::to_le_bytes / u32::to_le_bytes (the value is first cast to the width)
LE16(v) == <<v % 256, (v \div 256) % 256>>
LE32(v) == <<v % 256, (v \div 256) % 256, (v \div 65536) % 256, (v \div 16777216) % 256>>

\* for id in ids { reply.extend_from_slice(&id.to_le_bytes()) }
RECURSIVE LE32s(_)
LE32s(ids) == IF ids = <<>> THEN <<>> ELSE LE32(Head(ids)) \o LE32s(Tail(ids))

\* data[o], u16::from_le_bytes([data[o], data[o+1]]), u32::from_le_bytes(...)
B(data, o) == data[o + 1]
U16(data, o) == data[o + 1] + 256 * data[o + 2]
U32(data, o) == data[o + 1] + 256 * data[o + 2] + 65536 * data[o + 3] + 16777216 * data[o + 4]
\* i16::from_le_bytes
I16(data, o) == IF U16(data, o) >= 32768 THEN U16(data, o) - 65536 ELSE U16(data, o)
\* i16::to_le_bytes
LEI16(v) == LE16((v + 65536) % 65536)

\* &data[a..b]
Slice(data, a, b) == SubSeq(data, a + 1, b)
\* vec.drain(..n)
Drain(data, n) == SubSeq(data, n + 1, Len(data))
\* reply[o..o+len].copy_from_slice(bytes)
Put(reply, o, bytes) ==
    [i \in 1..Len(reply) |->
        IF i > o /\ i <= o + Len(bytes) THEN bytes[i - o] ELSE reply[i]]

\* (n + 3) & !3
Pad4(n) == ((n + 3) \div 4) * 4
\* u16::wrapping_add(1)
WrapInc16(v) == (v + 1) % 65536
\* an i16 sum that left the range (panics under overflow checks), and the
\* value it wraps to otherwise
OverflowsI16(v) == v < -32768 \/ v > 32767
WrapI16(v) == ((v + 32768) % 65536) - 32768

RECURSIVE Concat(_)
Concat(ss) == IF ss = <<>> THEN <<>> ELSE Head(ss) \o Concat(Tail(ss))

RECURSIVE SumSeq(_)
SumSeq(ns) == IF ns = <<>> THEN 0 ELSE Head(ns) + SumSeq(Tail(ns))

\* value of dict.get(key): a map is a function, a missing key is no domain element
Has(m, k) == k \in DOMAIN m
Insert(m, k, v) == [x \in (DOMAIN m) \cup {k} |-> IF x = k THEN v ELSE m[x]]
Remove(m, k) == [x \in (DOMAIN m) \ {k} |-> m[x]]
EmptyMap == [x \in {} |-> 0]

\* Vec::retain(|&c| c != id)
RECURSIVE Retain(_, _)
Retain(s, id) ==
    IF s = <<>> THEN <<>>
    ELSE IF Head(s) = id THEN Retain(Tail(s), id)
    ELSE <<Head(s)>> \o Retain(Tail(s), id)

----------------------------------------------------------------------------
(* String::from_utf8_lossy and std::str::from_utf8.  A Rust String is      *)
(* modelled by its UTF-8 bytes.                                            *)

IsCont(b) == b >= 128 /\ b <= 191

\* Number of bytes of the well-formed UTF-8 sequence that starts d[1], or 0
\* when d does not start with one.
Utf8SeqLen(d) ==
    LET b0 == d[1]
        n == Len(d)
        b1ok(lo, hi) == n >= 2 /\ d[2] >= lo /\ d[2] <= hi
        c(i) == n >= i /\ IsCont(d[i])
    IN  IF b0 < 128 THEN 1
        ELSE IF b0 >= 194 /\ b0 <= 223 THEN (IF c(2) THEN 2 ELSE 0)
        ELSE IF b0 = 224 THEN (IF b1ok(160, 191) /\ c(3) THEN 3 ELSE 0)
        ELSE IF b0 = 237 THEN (IF b1ok(128, 159) /\ c(3) THEN 3 ELSE 0)
        ELSE IF b0 >= 225 /\ b0 <= 239 THEN (IF c(2) /\ c(3) THEN 3 ELSE 0)
        ELSE IF b0 = 240 THEN (IF b1ok(144, 191) /\ c(3) /\ c(4) THEN 4 ELSE 0)
        ELSE IF b0 = 244 THEN (IF b1ok(128, 143) /\ c(3) /\ c(4) THEN 4 ELSE 0)
        ELSE IF b0 >= 241 /\ b0 <= 243 THEN (IF c(2) /\ c(3) /\ c(4) THEN 4 ELSE 0)
        ELSE 0

\* Length of the maximal ill-formed prefix that one U+FFFD replaces.
Utf8BadLen(d) ==
    LET b0 == d[1]
        n == Len(d)
        b1ok(lo, hi) == n >= 2 /\ d[2] >= lo /\ d[2] <= hi
        c(i) == n >= i /\ IsCont(d[i])
        second ==
            IF b0 = 224 THEN b1ok(160, 191)
            ELSE IF b0 = 237 THEN b1ok(128, 159)
            ELSE IF b0 = 240 THEN b1ok(144, 191)
            ELSE IF b0 = 244 THEN b1ok(128, 143)
            ELSE IF b0 >= 225 /\ b0 <= 243 THEN c(2)
            ELSE FALSE
    IN  IF ~second THEN 1
        ELSE IF b0 >= 240 /\ c(3) THEN 3
        ELSE 2

RECURSIVE Utf8Valid(_)
Utf8Valid(d) ==
    IF d = <<>> THEN TRUE
    ELSE LET k == Utf8SeqLen(d) IN k > 0 /\ Utf8Valid(Drain(d, k))

ReplacementChar == <<239, 191, 189>>

RECURSIVE Utf8Lossy(_)
Utf8Lossy(d) ==
    IF d = <<>> THEN <<>>
    ELSE LET k == Utf8SeqLen(d)
         IN  IF k > 0 THEN SubSeq(d, 1, k) \o Utf8Lossy(Drain(d, k))
             ELSE ReplacementChar \o Utf8Lossy(Drain(d, Utf8BadLen(d)))


----------------------------------------------------------------------------
(* display.rs: X11Window, DisplayState, ClientHandler                      *)

X11Window_new(parent, x, y, width, height, depth) ==
    [x |-> x, y |-> y, width |-> width, height |-> height, mapped |-> FALSE,
     parent |-> parent, children |-> <<>>,
     pixels |-> Zeros(width * height * 4), depth |-> depth]

X11Window_new_root(width, height) ==
    [x |-> 0, y |-> 0, width |-> width, height |-> height, mapped |-> TRUE,
     parent |-> 0, children |-> <<>>,
     pixels |-> Fill(width * height * 4, 32), depth |-> 24]

\* a resize that sets the size and keeps the old buffer (what C19 rules out)
X11Window_resize_keeping_pixels(win, width, height) ==
    [win EXCEPT !.width = width, !.height = height]

X11Window_resize(win, width, height) ==
    [win EXCEPT !.width = width, !.height = height,
                !.pixels = Zeros(width * height * 4)]

\* DisplayState::collect_mapped_windows: the list of (id, abs_x, abs_y, width, height) in `acc.result`;
\* `acc.panicked` when an i16 sum overflowed under overflow checks, or when
\* the recursion ran through more nested calls than there are windows (a
\* cycle of children: the recursion never returns and exhausts the stack)
RECURSIVE DisplayState_collect_mapped_recursive(_, _, _, _, _, _, _)
RECURSIVE DisplayState_collect_mapped_children(_, _, _, _, _, _, _, _)
DisplayState_collect_mapped_recursive(windows, root, id, parent_x, parent_y, depth, acc) ==
    IF acc.panicked \/ ~Has(windows, id) THEN acc
    ELSE IF ~windows[id].mapped THEN acc
    ELSE IF depth > Cardinality(DOMAIN windows) THEN [acc EXCEPT !.panicked = TRUE]
    ELSE IF overflow_checks /\ (OverflowsI16(parent_x + windows[id].x)
                                \/ OverflowsI16(parent_y + windows[id].y))
    THEN [acc EXCEPT !.panicked = TRUE]
    ELSE DisplayState_collect_mapped_children(windows, root, windows[id].children, 1,
              WrapI16(parent_x + windows[id].x), WrapI16(parent_y + windows[id].y), depth,
              IF id # root
              THEN [acc EXCEPT !.result = Append(@,
                        [id |-> id, abs_x |-> WrapI16(parent_x + windows[id].x),
                         abs_y |-> WrapI16(parent_y + windows[id].y),
                         width |-> windows[id].width, height |-> windows[id].height])]
              ELSE acc)
\* for &child in &children (from the i-th on)
DisplayState_collect_mapped_children(windows, root, children, i, abs_x, abs_y, depth, acc) ==
    IF i > Len(children) THEN acc
    ELSE DisplayState_collect_mapped_children(windows, root, children, i + 1, abs_x, abs_y, depth,
              DisplayState_collect_mapped_recursive(windows, root, children[i], abs_x, abs_y, depth + 1, acc))

DisplayState_collect_mapped_windows(st) ==
    DisplayState_collect_mapped_recursive(st.windows, st.root_id, st.root_id, 0, 0, 1, [result |-> <<>>, panicked |-> FALSE])

\* the blit of one collected window: the framebuffer after the sy/sx loops
DisplayState_blit(st, fb, m) ==
    IF ~Has(st.windows, m.id) THEN fb
    ELSE
    LET win == st.windows[m.id]
    IN  [i \in 1..Len(fb) |->
            LET dx == (i - 1) % st.width
                dy == (i - 1) \div st.width
                sx == dx - m.abs_x
                sy == dy - m.abs_y
                src_idx == (sy * win.width + sx) * 4
            IN  IF /\ sy >= 0 /\ sy < win.height /\ dy < st.height
                   /\ sx >= 0 /\ sx < win.width
                   /\ src_idx + 3 < Len(win.pixels)
                THEN \* BGRA -> 0RGB
                     win.pixels[src_idx + 3] * 65536 + win.pixels[src_idx + 2] * 256
                     + win.pixels[src_idx + 1]
                ELSE fb[i]]

\* for (wid, abs_x, abs_y, _w, _h) in mapped (from the i-th on)
RECURSIVE DisplayState_blit_all(_, _, _, _)
DisplayState_blit_all(st, fb, mapped, i) ==
    IF i > Len(mapped) THEN fb
    ELSE DisplayState_blit_all(st, DisplayState_blit(st, fb, mapped[i]), mapped, i + 1)

\* DisplayState::composite; the pass panics when the traversal does
DisplayState_composite(st) ==
    IF ~st.dirty THEN [st |-> st, panic |-> FALSE]
    ELSE IF DisplayState_collect_mapped_windows(st).panicked THEN [st |-> st, panic |-> TRUE]
    ELSE [st |-> [st EXCEPT
                    !.framebuffer = DisplayState_blit_all(st, Fill(st.width * st.height, 2105376),
                                        DisplayState_collect_mapped_windows(st).result, 1),
                    !.dirty = FALSE],
          panic |-> FALSE]

DisplayState_new(width, height) ==
    [windows |-> Insert(EmptyMap, 1, X11Window_new_root(width % 65536, height % 65536)),
     root_id |-> 1, width |-> width, height |-> height,
     framebuffer |-> Fill(width * height, 2105376), dirty |-> TRUE]

ClientHandler_new ==
    [sequence |-> 0, resource_id_base |-> 2097152, resource_id_mask |-> 2097151,
     atoms |-> EmptyMap, next_atom |-> 1, connected |-> FALSE]

\* What a call of ClientHandler::process leaves behind: the handler, the
\* shared display state, the returned bytes, and whether the call panicked.
NRes(h, st, reply) ==
    [h |-> h, st |-> st, reply |-> reply, panic |-> FALSE, kind |-> "request"]
NPanic(h, st) ==
    [h |-> h, st |-> st, reply |-> <<>>, panic |-> TRUE, kind |-> "request"]

\* connection_reply without the padding of the vendor string: the length word
\* counts, and the body holds, the 11 vendor bytes only
Native_connection_reply_unpadded(h, st) ==
    LET additional_data_len == 32 + 11 + 8 + 40 + (8 + 24)
    IN  <<1, 0>> \o LE16(11) \o LE16(0) \o LE16(additional_data_len \div 4)
        \o Zeros(additional_data_len)

Native_connection_reply(h, st) ==
    LET vendor == <<120, 49, 49, 113, 45, 110, 97, 116, 105, 118, 101>>
        vendor_len == Len(vendor)
        vendor_pad == (4 - (vendor_len % 4)) % 4
        vendor_total == vendor_len + vendor_pad
        additional_data_len == 32 + vendor_total + 8 + 40 + (8 + 24)
        additional_words == additional_data_len \div 4
    IN  <<1, 0>> \o LE16(11) \o LE16(0) \o LE16(additional_words)
        \o LE32(0) \o LE32(h.resource_id_base) \o LE32(h.resource_id_mask)
        \o LE32(0) \o LE16(vendor_len) \o LE16(65535)
        \o <<1, 1, 0, 0, 8, 32, 8, 255>> \o Zeros(4)
        \o vendor \o Zeros(vendor_pad)
        \o <<24, 32, 32>> \o Zeros(5)
        \o LE32(st.root_id) \o LE32(32) \o <<255, 255, 255, 255>> \o LE32(0) \o LE32(0)
        \o LE16(st.width) \o LE16(st.height)
        \o LE16(st.width \div 4) \o LE16(st.height \div 4)
        \o LE16(1) \o LE16(1) \o LE32(33) \o <<0, 1, 24, 1>>
        \o <<24, 0>> \o LE16(1) \o Zeros(4)
        \o LE32(33) \o <<4, 8>> \o LE16(256)
        \o LE32(16711680) \o LE32(65280) \o LE32(255) \o Zeros(4)

Native_handle_create_window(h, st, data) ==
    IF Len(data) < 32 THEN NRes(h, st, <<>>)
    ELSE
    LET depth == B(data, 1)
        wid == U32(data, 4)
        parent == U32(data, 8)
        x == I16(data, 12)
        y == I16(data, 14)
        width == Max(U16(data, 16), 1)
        height == Max(U16(data, 18), 1)
        window == X11Window_new(parent, x, y, width, height,
                                IF depth = 0 THEN 24 ELSE depth)
        w1 == Insert(st.windows, wid, window)
        w2 == IF Has(w1, parent)
              THEN [w1 EXCEPT ![parent].children = Append(@, wid)]
              ELSE w1
    IN  NRes(h, [st EXCEPT !.windows = w2, !.dirty = TRUE], <<>>)

Native_handle_destroy_window(h, st, data) ==
    IF Len(data) < 8 THEN NRes(h, st, <<>>)
    ELSE
    LET wid == U32(data, 4)
        w2 == IF Has(st.windows, wid)
              THEN LET win == st.windows[wid]
                       w1 == Remove(st.windows, wid)
                   IN  IF Has(w1, win.parent)
                       THEN [w1 EXCEPT ![win.parent].children = Retain(@, wid)]
                       ELSE w1
              ELSE st.windows
    IN  NRes(h, [st EXCEPT !.windows = w2, !.dirty = TRUE], <<>>)

Native_handle_map_window(h, st, data) ==
    IF Len(data) < 8 THEN NRes(h, st, <<>>)
    ELSE
    LET wid == U32(data, 4)
    IN  IF Has(st.windows, wid)
        THEN NRes(h, [st EXCEPT !.windows[wid].mapped = TRUE, !.dirty = TRUE], <<>>)
        ELSE NRes(h, st, <<>>)

Native_handle_unmap_window(h, st, data) ==
    IF Len(data) < 8 THEN NRes(h, st, <<>>)
    ELSE
    LET wid == U32(data, 4)
    IN  IF Has(st.windows, wid)
        THEN NRes(h, [st EXCEPT !.windows[wid].mapped = FALSE, !.dirty = TRUE], <<>>)
        ELSE NRes(h, st, <<>>)

\* value_mask & bit != 0
Bit(mask, bit) == (mask \div bit) % 2 = 1

Native_handle_configure_window(h, st, data) ==
    IF Len(data) < 12 THEN NRes(h, st, <<>>)
    ELSE
    LET wid == U32(data, 4)
        value_mask == U16(data, 8)
        n == Len(data)
    IN  IF ~Has(st.windows, wid) THEN NRes(h, st, <<>>)
        ELSE
        LET win0 == st.windows[wid]
            hasX == Bit(value_mask, 1) /\ 12 + 4 <= n
            win1 == IF hasX THEN [win0 EXCEPT !.x = I16(data, 12)] ELSE win0
            off1 == IF hasX THEN 16 ELSE 12
            hasY == Bit(value_mask, 2) /\ off1 + 4 <= n
            win2 == IF hasY THEN [win1 EXCEPT !.y = I16(data, off1)] ELSE win1
            off2 == IF hasY THEN off1 + 4 ELSE off1
            hasW == Bit(value_mask, 4) /\ off2 + 4 <= n
            off3 == off2 + 4
            win3 == IF hasW
                    THEN IF Bit(value_mask, 8) /\ off3 + 4 <= n
                         THEN X11Window_resize(win2, Max(U16(data, off2), 1),
                                               Max(U16(data, off3), 1))
                         ELSE win2
                    ELSE IF Bit(value_mask, 8) /\ off2 + 4 <= n
                         THEN X11Window_resize(win2, win2.width, Max(U16(data, off2), 1))
                         ELSE win2
        IN  NRes(h, [st EXCEPT !.windows[wid] = win3, !.dirty = TRUE], <<>>)


Native_handle_create_pixmap(h, st, data) ==
    IF Len(data) < 16 THEN NRes(h, st, <<>>)
    ELSE
    LET depth == B(data, 1)
        pid == U32(data, 4)
        width == Max(U16(data, 12), 1)
        height == Max(U16(data, 14), 1)
        pixmap == X11Window_new(0, 0, 0, width, height, depth)
    IN  NRes(h, [st EXCEPT !.windows = Insert(@, pid, pixmap)], <<>>)

\* vec![1u8]; push(detail); sequence; length: the 8-byte head of a reply
ReplyHead(detail, sequence, length) ==
    <<1, detail>> \o LE16(sequence) \o LE32(length)

Native_get_window_attributes(h, st) ==
    NRes(h, st,
         ReplyHead(0, h.sequence, 3) \o LE32(33) \o LE16(1) \o <<0, 0>>
         \o LE32(0) \o LE32(0) \o <<0, 1, 2, 0>>
         \o LE32(32) \o LE32(0) \o LE32(0) \o LE16(0) \o Zeros(2))

Native_get_geometry(h, st, data) ==
    IF Len(data) < 8 THEN NPanic(h, st)
    ELSE
    LET drawable == U32(data, 4)
        found == Has(st.windows, drawable)
        win == st.windows[drawable]
        depth == IF found THEN win.depth ELSE 24
        x == IF found THEN win.x ELSE 0
        y == IF found THEN win.y ELSE 0
        w == IF found THEN win.width ELSE st.width % 65536
        hh == IF found THEN win.height ELSE st.height % 65536
    IN  NRes(h, st,
             ReplyHead(depth, h.sequence, 0) \o LE32(st.root_id)
             \o LEI16(x) \o LEI16(y) \o LE16(w) \o LE16(hh) \o LE16(0) \o Zeros(10))

Native_query_tree(h, st, data) ==
    IF Len(data) < 8 THEN NPanic(h, st)
    ELSE
    LET window == U32(data, 4)
        found == Has(st.windows, window)
        parent == IF found THEN st.windows[window].parent ELSE 0
        children == IF found THEN st.windows[window].children ELSE <<>>
        num_children == Len(children) % 65536
    IN  NRes(h, st,
             ReplyHead(0, h.sequence, num_children) \o LE32(st.root_id)
             \o LE32(parent) \o LE16(num_children) \o Zeros(14) \o LE32s(children))

Native_query_pointer(h, st) ==
    NRes(h, st,
         ReplyHead(1, h.sequence, 0) \o LE32(st.root_id) \o LE32(0)
         \o LEI16(0) \o LEI16(0) \o LEI16(0) \o LEI16(0) \o LE16(0) \o Zeros(6))

Native_get_input_focus(h, st) ==
    NRes(h, st, ReplyHead(0, h.sequence, 0) \o LE32(st.root_id) \o Zeros(20))

\* get_image: the pixels of the requested rectangle, row by row
GetImagePixel(win, src_x, src_y) ==
    LET idx == (src_y * win.width + src_x) * 4
    IN  IF src_x >= 0 /\ src_x < win.width /\ src_y >= 0 /\ src_y < win.height
           /\ idx + 3 < Len(win.pixels)
        THEN Slice(win.pixels, idx, idx + 4)
        ELSE <<0, 0, 0, 255>>

GetImageRow(win, x, src_y, width) ==
    Concat([sx \in 1..width |-> GetImagePixel(win, x + sx - 1, src_y)])

Native_get_image(h, st, data) ==
    IF Len(data) < 20
    THEN NRes(h, st, ReplyHead(24, h.sequence, 0) \o LE32(33) \o Zeros(20))
    ELSE
    LET drawable == U32(data, 4)
        x == I16(data, 8)
        y == I16(data, 10)
        width == U16(data, 12)
        height == U16(data, 14)
        image_data ==
            IF Has(st.windows, drawable)
            THEN Concat([sy \in 1..height |->
                            GetImageRow(st.windows[drawable], x, y + sy - 1, width)])
            ELSE <<>>
    IN  NRes(h, st,
             ReplyHead(24, h.sequence, Len(image_data) \div 4) \o LE32(33)
             \o Zeros(20) \o image_data)

Native_intern_atom(h, st, data) ==
    IF Len(data) < 6 THEN NPanic(h, st)
    ELSE
    LET only_if_exists == B(data, 1) # 0
        name_len == U16(data, 4)
    IN  IF 8 + name_len > Len(data) THEN NPanic(h, st)
        ELSE
        LET name == Utf8Lossy(Slice(data, 8, 8 + name_len))
            known == Has(h.atoms, name)
            atom == IF known THEN h.atoms[name]
                    ELSE IF only_if_exists THEN 0
                    ELSE h.next_atom
            h2 == IF known \/ only_if_exists THEN h
                  ELSE [h EXCEPT !.next_atom = @ + 1,
                                 !.atoms = Insert(@, name, atom)]
        IN  NRes(h2, st, ReplyHead(0, h.sequence, 0) \o LE32(atom) \o Zeros(20))

\* self.atoms.iter().find(|(_, &v)| v == atom).map(|(k, _)| k.as_str()).unwrap_or("")
AtomNameOf(atoms, atom) ==
    IF \E k \in DOMAIN atoms : atoms[k] = atom
    THEN CHOOSE k \in DOMAIN atoms : atoms[k] = atom
    ELSE <<>>

Native_get_atom_name(h, st, data) ==
    IF Len(data) < 8 THEN NPanic(h, st)
    ELSE
    LET atom == U32(data, 4)
        name == AtomNameOf(h.atoms, atom)
        name_len == Len(name)
        pad == (4 - (name_len % 4)) % 4
        words == (name_len + pad) \div 4
    IN  NRes(h, st,
             ReplyHead(0, h.sequence, words) \o LE16(name_len) \o Zeros(22)
             \o name \o Zeros(pad))

Native_get_property(h, st) ==
    NRes(h, st, ReplyHead(0, h.sequence, 0) \o LE32(0) \o LE32(0) \o LE32(0) \o Zeros(12))

Native_get_selection_owner(h, st) ==
    NRes(h, st, ReplyHead(0, h.sequence, 0) \o LE32(0) \o Zeros(20))

Native_query_font(h, st) ==
    NRes(h, st, ReplyHead(0, h.sequence, 7) \o Zeros(28))

Native_alloc_color(h, st) ==
    NRes(h, st,
         ReplyHead(0, h.sequence, 0) \o LE16(65535) \o LE16(65535) \o LE16(65535)
         \o Zeros(2) \o LE32(0) \o Zeros(12))

Native_query_colors(h, st, data) ==
    LET num_pixels == IF Len(data) >= 8 THEN (Len(data) - 8) \div 4 ELSE 0
        rgb == LE16(65535) \o LE16(65535) \o LE16(65535) \o Zeros(2)
    IN  NRes(h, st,
             ReplyHead(0, h.sequence, num_pixels * 2) \o LE16(num_pixels) \o Zeros(22)
             \o Concat([i \in 1..num_pixels |-> rgb]))

Native_query_best_size(h, st) ==
    NRes(h, st, ReplyHead(0, h.sequence, 0) \o LE16(16) \o LE16(16) \o Zeros(20))


\* Extension names as bytes: b"RANDR", b"XInputExtension", b"XKEYBOARD",
\* b"Generic Event Extension"
Name_RANDR == <<82, 65, 78, 68, 82>>
Name_XInputExtension == <<88, 73, 110, 112, 117, 116, 69, 120, 116, 101, 110, 115, 105, 111, 110>>
Name_XKEYBOARD == <<88, 75, 69, 89, 66, 79, 65, 82, 68>>
Name_GE == <<71, 101, 110, 101, 114, 105, 99, 32, 69, 118, 101, 110, 116, 32,
             69, 120, 116, 101, 110, 115, 105, 111, 110>>

RANDR_MAJOR_OPCODE == 140
XINPUT_MAJOR_OPCODE == 131
XKB_MAJOR_OPCODE == 135
GE_MAJOR_OPCODE == 128

\* ClientHandler.extensions: name -> (major, first_event, first_error)
Native_extensions(name) ==
    IF name = Name_RANDR THEN <<1, RANDR_MAJOR_OPCODE, 89, 147>>
    ELSE IF name = Name_XInputExtension THEN <<1, XINPUT_MAJOR_OPCODE, 147, 135>>
    ELSE IF name = Name_XKEYBOARD THEN <<1, XKB_MAJOR_OPCODE, 85, 137>>
    ELSE IF name = Name_GE THEN <<1, GE_MAJOR_OPCODE, 0, 0>>
    ELSE <<0, 0, 0, 0>>

Native_query_extension(h, st, data) ==
    IF Len(data) < 8 THEN NPanic(h, st)
    ELSE
    LET name_len == U16(data, 4)
        end == Min(8 + name_len, Len(data))
        name == Utf8Lossy(Slice(data, 8, end))
    IN  NRes(h, st, ReplyHead(0, h.sequence, 0) \o Native_extensions(name) \o Zeros(20))

Native_query_keymap(h, st) ==
    NRes(h, st, ReplyHead(0, h.sequence, 0) \o Zeros(24))

\* the keysym table of get_keyboard_mapping
Keysym(keycode) ==
    IF keycode >= 10 /\ keycode <= 19 THEN keycode - 10 + 49
    ELSE IF keycode >= 24 /\ keycode <= 33 THEN keycode - 24 + 113
    ELSE IF keycode >= 38 /\ keycode <= 46 THEN keycode - 38 + 97
    ELSE IF keycode >= 52 /\ keycode <= 58 THEN keycode - 52 + 122
    ELSE 0

Native_get_keyboard_mapping(h, st, data) ==
    IF Len(data) < 6 THEN NPanic(h, st)
    ELSE
    LET first == B(data, 4)
        count == B(data, 5)
        words == count * 4
    IN  IF overflow_checks /\ count > 0 /\ first + (count - 1) > 255
        THEN NPanic(h, st)
        ELSE NRes(h, st,
                  ReplyHead(4, h.sequence, words) \o Zeros(24)
                  \o Concat([i \in 1..count |->
                        LE32(Keysym((first + i - 1) % 256)) \o Zeros(12)]))

Native_get_modifier_mapping(h, st) ==
    NRes(h, st, ReplyHead(2, h.sequence, (8 * 2) \div 4) \o Zeros(24) \o Zeros(16))

Native_handle_randr(h, st, data) ==
    LET minor == B(data, 1)
        w == LE16(st.width)
        hh == LE16(st.height)
    IN  IF minor = 0
        THEN NRes(h, st, ReplyHead(0, h.sequence, 0) \o LE32(1) \o LE32(6) \o Zeros(16))
        ELSE IF minor = 5
        THEN NRes(h, st,
                  ReplyHead(0, h.sequence, (8 + 1 * 4 + 1 * 4 + 1 * 32 + 8) \div 4)
                  \o LE32(0) \o LE32(0) \o LE16(1) \o LE16(1) \o LE16(1) \o LE16(8)
                  \o Zeros(8) \o LE32(1) \o LE32(1)
                  \o LE32(1) \o w \o hh \o LE32(60000000)
                  \o w \o w \o w \o LE16(0) \o hh \o hh \o hh
                  \o LE16(7) \o LE32(0)
                  \o <<100, 101, 102, 97, 117, 108, 116, 0>>)
        ELSE IF minor = 25
        THEN NRes(h, st, ReplyHead(0, h.sequence, 0) \o LE32(1) \o Zeros(20))
        ELSE NRes(h, st, <<>>)

\* b"Master pointer", b"Master keyboard"
Name_MasterPointer == <<77, 97, 115, 116, 101, 114, 32, 112, 111, 105, 110, 116, 101, 114>>
Name_MasterKeyboard == <<77, 97, 115, 116, 101, 114, 32, 107, 101, 121, 98, 111, 97, 114, 100>>

Native_xi_devices ==
    LE16(2) \o LE16(1) \o LE16(3) \o LE16(0) \o LE16(14) \o <<1, 0>>
    \o Name_MasterPointer \o Zeros(2)
    \o LE16(3) \o LE16(2) \o LE16(2) \o LE16(0) \o LE16(15) \o <<1, 0>>
    \o Name_MasterKeyboard \o <<0>>

Native_handle_xinput(h, st, data) ==
    LET minor == B(data, 1)
        pos == LE32(100 * 65536)
    IN  IF minor = 1
        THEN NRes(h, st, ReplyHead(0, h.sequence, 0) \o LE16(2) \o LE16(3) \o Zeros(20))
        ELSE IF minor = 46
        THEN NRes(h, st,
                  ReplyHead(0, h.sequence, Len(Native_xi_devices) \div 4)
                  \o LE16(2) \o Zeros(22) \o Native_xi_devices)
        ELSE IF minor = 47
        THEN NRes(h, st,
                  ReplyHead(0, h.sequence, 4) \o LE32(st.root_id) \o LE32(0)
                  \o pos \o pos \o pos \o pos \o <<1, 0>> \o LE16(0) \o Zeros(12))
        ELSE IF minor = 48
        THEN NRes(h, st, ReplyHead(0, h.sequence, 0) \o LE32(st.root_id) \o Zeros(20))
        ELSE NRes(h, st, <<>>)

Native_handle_xkb(h, st, data) ==
    LET minor == B(data, 1)
    IN  IF minor = 0
        THEN NRes(h, st, ReplyHead(1, h.sequence, 0) \o LE16(1) \o LE16(0) \o Zeros(20))
        ELSE IF minor = 6
        THEN NRes(h, st,
                  ReplyHead(3, h.sequence, 15) \o Zeros(24) \o Zeros(32) \o Fill(32, 255))
        ELSE IF minor = 8
        THEN NRes(h, st,
                  ReplyHead(3, h.sequence, 2) \o Zeros(2) \o <<8, 255>> \o Zeros(28))
        ELSE NRes(h, st, <<>>)

Native_handle_ge(h, st, data) ==
    IF B(data, 1) = 0
    THEN NRes(h, st, ReplyHead(0, h.sequence, 0) \o LE16(1) \o LE16(0) \o Zeros(20))
    ELSE NRes(h, st, <<>>)


----------------------------------------------------------------------------
(* display.rs: the drawing handlers *)

Native_handle_clear_area(h, st, data) ==
    IF Len(data) < 16 THEN NRes(h, st, <<>>)
    ELSE
    LET wid == U32(data, 4)
        x == U16(data, 8)
        y == U16(data, 10)
        width == U16(data, 12)
        height == U16(data, 14)
    IN  IF ~Has(st.windows, wid) THEN NRes(h, st, <<>>)
        ELSE
        LET win == st.windows[wid]
            \* usize subtraction: panics under overflow checks, else wraps,
            \* and then x + w wraps back to win.width: the range is empty
            under == (width = 0 /\ x > win.width) \/ (height = 0 /\ y > win.height)
            w == IF width = 0 THEN win.width - x ELSE width
            hh == IF height = 0 THEN win.height - y ELSE height
            inRect(px, py) ==
                /\ py >= y /\ py < y + hh /\ py < win.height
                /\ px >= x /\ px < x + w /\ px < win.width
                /\ (py * win.width + px) * 4 + 3 < Len(win.pixels)
            pixels == [i \in 1..Len(win.pixels) |->
                        LET p == (i - 1) \div 4
                        IN  IF inRect(p % win.width, p \div win.width)
                            THEN (IF (i - 1) % 4 = 3 THEN 255 ELSE 0)
                            ELSE win.pixels[i]]
        IN  IF under /\ overflow_checks THEN NPanic(h, st)
            ELSE NRes(h, [st EXCEPT !.windows[wid].pixels = pixels, !.dirty = TRUE], <<>>)

\* the rectangles of a PolyFillRectangle request: offsets 12, 20, ... while
\* offset + 8 <= data.len()
PolyRects(data) ==
    [k \in 1..(IF Len(data) >= 12 THEN (Len(data) - 12) \div 8 ELSE 0) |->
        LET o == 12 + 8 * (k - 1)
        IN  [x |-> I16(data, o), y |-> I16(data, o + 2),
             w |-> U16(data, o + 4), h |-> U16(data, o + 6)]]

Native_handle_poly_fill_rectangle(h, st, data) ==
    IF Len(data) < 12 THEN NRes(h, st, <<>>)
    ELSE
    LET drawable == U32(data, 4)
        rects == PolyRects(data)
    IN  IF ~Has(st.windows, drawable) \/ rects = <<>> THEN NRes(h, st, <<>>)
        ELSE
        LET win == st.windows[drawable]
            covered(px, py) ==
                \E k \in 1..Len(rects) :
                    /\ py >= rects[k].y /\ py < rects[k].y + rects[k].h
                    /\ px >= rects[k].x /\ px < rects[k].x + rects[k].w
            pixels == [i \in 1..Len(win.pixels) |->
                        LET p == (i - 1) \div 4
                        IN  IF covered(p % win.width, p \div win.width)
                            THEN 255 ELSE win.pixels[i]]
        IN  NRes(h, [st EXCEPT !.windows[drawable].pixels = pixels, !.dirty = TRUE], <<>>)

Native_handle_put_image(h, st, data) ==
    IF Len(data) < 24 THEN NRes(h, st, <<>>)
    ELSE
    LET format == B(data, 1)
        drawable == U32(data, 4)
        width == U16(data, 12)
        height == U16(data, 14)
        dst_x == I16(data, 16)
        dst_y == I16(data, 18)
        depth == B(data, 21)
        image_data == Drain(data, 24)
    IN  IF ~Has(st.windows, drawable) \/ format # 2 THEN NRes(h, st, <<>>)
        ELSE
        LET win == st.windows[drawable]
            bpp == IF depth = 24 \/ depth = 32 THEN 4 ELSE 1
            padded_row == Pad4(width * bpp)
            ilen == Len(image_data)
            src(sx, sy) == sy * padded_row + sx * bpp
            \* the iteration (sy, sx) copies a pixel
            active(sx, sy) ==
                /\ dst_y + sy >= 0 /\ dst_y + sy < win.height
                /\ dst_x + sx >= 0 /\ dst_x + sx < win.width
                /\ src(sx, sy) + bpp <= ilen
                /\ ((dst_y + sy) * win.width + dst_x + sx) * 4 + 3 < Len(win.pixels)
            \* ... and indexes image_data past its end while doing so
            oob(sx, sy) == active(sx, sy) /\ src(sx, sy) + 2 >= ilen
            order(sx, sy) == sy * width + sx
            bad == {k \in 0..(width * height - 1) : oob(k % Max(width, 1), k \div Max(width, 1))}
            kstar == IF bad = {} THEN width * height
                     ELSE CHOOSE k \in bad : \A j \in bad : k <= j
            pixels == [i \in 1..Len(win.pixels) |->
                        LET p == (i - 1) \div 4
                            c == (i - 1) % 4
                            sx == (p % win.width) - dst_x
                            sy == (p \div win.width) - dst_y
                            k == order(sx, sy)
                            mine == sx >= 0 /\ sx < width /\ sy >= 0 /\ sy < height
                                    /\ active(sx, sy)
                        IN  IF mine /\ k < kstar
                            THEN (IF c = 3 /\ bpp = 1 THEN 255
                                  ELSE image_data[src(sx, sy) + c + 1])
                            ELSE IF mine /\ k = kstar /\ src(sx, sy) + c < ilen /\ c < 2
                            THEN image_data[src(sx, sy) + c + 1]
                            ELSE win.pixels[i]]
            st2 == [st EXCEPT !.windows[drawable].pixels = pixels]
        IN  IF bad # {} THEN NPanic(h, st2)
            ELSE NRes(h, [st2 EXCEPT !.dirty = TRUE], <<>>)

----------------------------------------------------------------------------
(* The client: the frames it writes *)

\* a 16-bit value in the client's byte order (0x42: most significant first)
Card16(byte_order, v) ==
    IF byte_order = 66 THEN <<(v \div 256) % 256, v % 256>> ELSE LE16(v)

\* the connection setup frame: byte order, protocol 11.0, the two
\* authorization strings, each padded to a multiple of four
SetupFrame(byte_order, auth_name, auth_data) ==
    <<byte_order, 0>> \o Card16(byte_order, 11) \o Card16(byte_order, 0)
    \o Card16(byte_order, Len(auth_name)) \o Card16(byte_order, Len(auth_data))
    \o <<0, 0>>
    \o auth_name \o Zeros(Pad4(Len(auth_name)) - Len(auth_name))
    \o auth_data \o Zeros(Pad4(Len(auth_data)) - Len(auth_data))

\* a request frame: opcode, detail, length in words, body
Req(opcode, detail, body) ==
    <<opcode, detail>> \o LE16((4 + Len(body)) \div 4) \o body

Root == 1
\* two ids of the client's resource range, and an id no request creates
W1 == ClientHandler_new.resource_id_base + 1
W2 == ClientHandler_new.resource_id_base + 2
NoSuchWindow == ClientHandler_new.resource_id_base + 3
GC1 == ClientHandler_new.resource_id_base + 4

ReqCreateWindowAt(wid, parent, x, y, width, height) ==
    Req(1, 0, LE32(wid) \o LE32(parent) \o LEI16(x) \o LEI16(y) \o LE16(width)
              \o LE16(height) \o LE16(0) \o LE16(1) \o LE32(0) \o LE32(0))
ReqCreateWindow(wid, parent) == ReqCreateWindowAt(wid, parent, 0, 0, 1, 1)
\* ConfigureWindow: the value mask, then one 4-byte value per set bit
ReqConfigureWindow(wid, value_mask, values) ==
    Req(12, 0, LE32(wid) \o LE16(value_mask) \o <<0, 0>> \o LE32s(values))
ReqDestroyWindow(wid) == Req(4, 0, LE32(wid))
ReqMapWindow(wid) == Req(8, 0, LE32(wid))
ReqChangeGCValues(gc, value_mask, values) ==
    Req(56, 0, LE32(gc) \o LE32(value_mask) \o LE32s(values))
ReqQueryColors(cmap, pixels) == Req(91, 0, LE32(cmap) \o LE32s(pixels))
ReqUnmapWindow(wid) == Req(10, 0, LE32(wid))
ReqGetGeometry(drawable) == Req(14, 0, LE32(drawable))
ReqQueryTree(wid) == Req(15, 0, LE32(wid))
\* a GetGeometry frame of one word, shorter than the layout of its opcode
ReqShortGetGeometry == Req(14, 0, <<>>)
ReqInternAtom(only_if_exists, name) ==
    Req(16, only_if_exists, LE16(Len(name)) \o <<0, 0>> \o name
                            \o Zeros(Pad4(Len(name)) - Len(name)))
ReqGetAtomName(atom) == Req(17, 0, LE32(atom))
ReqGetInputFocus == Req(43, 0, <<>>)
ReqQueryFont(font) == Req(47, 0, LE32(font))
ReqCreatePixmap(pid, drawable) ==
    Req(53, 24, LE32(pid) \o LE32(drawable) \o LE16(1) \o LE16(1))
ReqCreateGC(cid, drawable) == Req(55, 0, LE32(cid) \o LE32(drawable) \o LE32(0))
\* value mask 0x04: foreground
ReqChangeGC(gc, foreground) == Req(56, 0, LE32(gc) \o LE32(4) \o LE32(foreground))
ReqClearArea(wid, x, y, width, height) ==
    Req(61, 0, LE32(wid) \o LE16(x) \o LE16(y) \o LE16(width) \o LE16(height))
ReqPolySegment == Req(66, 0, LE32(Root) \o LE32(0))
\* one rectangle
ReqPolyFillRectangleWith(drawable, gc, x, y, width, height) ==
    Req(70, 0, LE32(drawable) \o LE32(gc) \o LE16(x) \o LE16(y) \o LE16(width) \o LE16(height))
\* ... with gc 0
ReqPolyFillRectangle(drawable, x, y, width, height) ==
    ReqPolyFillRectangleWith(drawable, 0, x, y, width, height)
\* ZPixmap (format 2), gc 0, left pad 0
ReqPutImage(drawable, width, height, dst_x, dst_y, depth, image_data) ==
    Req(72, 2, LE32(drawable) \o LE32(0) \o LE16(width) \o LE16(height)
               \o LE16(dst_x) \o LE16(dst_y) \o <<0, depth, 0, 0>> \o image_data)
\* ZPixmap (format 2), all planes
ReqGetImage(drawable, x, y, width, height) ==
    Req(73, 2, LE32(drawable) \o LE16(x) \o LE16(y) \o LE16(width) \o LE16(height)
               \o <<255, 255, 255, 255>>)
ReqGetScreenSaver == Req(108, 0, <<>>)
ReqRRGetScreenResources == Req(RANDR_MAJOR_OPCODE, 5, LE32(Root))
ReqXkbGetControls == Req(XKB_MAJOR_OPCODE, 6, LE32(256))

Setups(sc) ==
    IF sc = "framing"
    THEN {SetupFrame(108, <<>>, <<>>), SetupFrame(66, <<>>, <<>>),
          SetupFrame(108, <<65, 66>>, <<>>)}
    ELSE IF sc = "setup"
    THEN {SetupFrame(108, <<>>, <<>>), SetupFrame(0, <<>>, <<>>),
          ReqCreateWindowAt(W1, Root, 0, 0, 1, 1)}
    ELSE {SetupFrame(108, <<>>, <<>>)}

Requests(sc) ==
    CASE sc = "replies" ->
           {ReqGetInputFocus, ReqGetGeometry(Root), ReqQueryTree(Root),
            ReqQueryFont(W1), ReqRRGetScreenResources, ReqXkbGetControls}
      [] sc = "framing" ->
           {ReqGetInputFocus, ReqGetScreenSaver, ReqPolySegment, ReqGetGeometry(Root),
            ReqShortGetGeometry}
      [] sc = "tree" ->
           {ReqCreateWindow(W1, Root), ReqCreateWindow(W2, W1),
            ReqCreateWindow(W2, NoSuchWindow), ReqCreateWindow(Root, W1),
            ReqDestroyWindow(W1), ReqDestroyWindow(Root), ReqUnmapWindow(Root),
            ReqMapWindow(W1), ReqCreatePixmap(Root, Root)}
      [] sc = "geometry" ->
           {ReqCreateWindowAt(W1, Root, 1, 1, 2, 1), ReqCreateWindowAt(W1, Root, 0, 0, 0, 0),
            ReqCreatePixmap(W2, Root),
            ReqConfigureWindow(W1, 4, <<1>>), ReqConfigureWindow(W1, 8, <<2>>),
            ReqConfigureWindow(W1, 12, <<1, 2>>),
            ReqConfigureWindow(W1, 31, <<0, 2, 1, 1, 1>>),
            ReqGetGeometry(W1), ReqGetGeometry(W2), ReqGetGeometry(NoSuchWindow),
            ReqQueryTree(NoSuchWindow), ReqGetAtomName(69)}
      [] sc = "mapping" ->
           {ReqCreateWindowAt(W1, Root, 1, 2, 1, 1), ReqCreateWindowAt(W2, W1, 3, 4, 1, 1),
            ReqMapWindow(W1), ReqMapWindow(W2), ReqUnmapWindow(W1)}
      [] sc = "composite" ->
           {ReqCreateWindowAt(W1, Root, 1, 0, 2, 1), ReqCreateWindowAt(W2, W1, 0, 0, 1, 2),
            ReqMapWindow(W1), ReqMapWindow(W2),
            ReqPutImage(W1, 1, 1, 0, 0, 24, <<7, 8, 9, 0>>),
            ReqPutImage(W2, 1, 1, 0, 0, 24, <<1, 2, 3, 0>>)}
      [] sc = "fill" ->
           {ReqCreateWindowAt(W1, Root, 0, 0, 2, 1),
            ReqCreateGC(GC1, W1), ReqChangeGC(GC1, 66051),   \* foreground 0x010203
            ReqPolyFillRectangleWith(W1, GC1, 1, 0, 2, 1),
            ReqPolyFillRectangleWith(W1, 0, 0, 0, 1, 1)}
      [] sc = "image" ->
           {ReqCreateWindowAt(W1, Root, 0, 0, 2, 1), ReqCreatePixmap(W2, Root),
            ReqPutImage(W1, 2, 1, 0, 0, 24, <<1, 2, 3, 4, 5, 6, 7, 8>>),
            ReqPutImage(W1, 1, 1, 1, 0, 24, <<9, 10, 11, 12>>),
            ReqPutImage(W2, 1, 1, 0, 0, 24, <<13, 14, 15, 16>>),
            ReqGetImage(W1, 0, 0, 2, 1), ReqGetImage(W1, 1, 0, 1, 1),
            ReqGetImage(W2, 0, 0, 1, 1)}
      [] sc = "tasks" ->
           {ReqCreateWindowAt(W1, Root, 0, 0, 1, 1), ReqCreateWindowAt(W2, W1, 0, 0, 1, 1),
            ReqDestroyWindow(W1), ReqConfigureWindow(W1, 12, <<2, 1>>),
            ReqQueryTree(Root), ReqGetGeometry(W1), ReqCreateGC(GC1, Root)}
      [] sc = "teardown" ->
           {ReqCreateWindowAt(W1, Root, 0, 0, 1, 1), ReqQueryTree(Root)}
      [] sc = "setup" ->
           {ReqGetInputFocus, SetupFrame(108, <<>>, <<>>)}
      [] sc = "unknown" ->
           {Req(200, 0, <<>>), Req(66, 0, LE32(W1)), ReqCreateWindowAt(W1, Root, 0, 0, 1, 1),
            ReqGetInputFocus}
      [] sc = "buffered" ->
           {ReqCreateWindowAt(W1, Root, 0, 0, 2, 9), ReqCreateWindowAt(W2, Root, 0, 0, 1, 1),
            ReqPolyFillRectangleWith(W1, 0, 0, 0, 1, 1), ReqQueryColors(0, <<0>>),
            ReqGetInputFocus}
      [] sc = "cycles" ->
           {ReqCreateWindow(W1, Root), ReqCreateWindow(W1, W1), ReqCreateWindow(W2, W1),
            ReqCreateWindow(Root, Root), ReqMapWindow(W1), ReqDestroyWindow(W1)}
      [] sc = "gc" ->
           {ReqCreateGC(GC1, Root), ReqChangeGCValues(GC1, 4, <<5>>),
            ReqChangeGCValues(GC1, 5, <<3, 66051>>), ReqChangeGCValues(GC1, 12, <<7, 9>>),
            ReqChangeGCValues(GC1, 10, <<6, 8>>), ReqChangeGCValues(GC1, 1, <<3>>)}
      [] sc = "keys" ->
           {ReqGetInputFocus}
      [] sc = "events" ->
           {ReqMapWindow(W1), ReqGetInputFocus}
      [] sc = "pixels" ->
           {ReqCreateWindowAt(W1, Root, 0, 0, 2, 1), ReqCreateWindowAt(W1, Root, 0, 0, 0, 0),
            ReqCreatePixmap(W2, Root), ReqCreatePixmap(Root, Root),
            ReqConfigureWindow(W1, 4, <<1>>), ReqConfigureWindow(W1, 8, <<2>>),
            ReqConfigureWindow(W1, 12, <<1, 0>>), ReqConfigureWindow(Root, 12, <<1, 1>>),
            ReqClearArea(W1, 0, 0, 0, 0), ReqClearArea(W1, 3, 0, 0, 1),
            ReqPolyFillRectangle(W1, 0, 0, 2, 2),
            ReqPutImage(W1, 1, 1, 0, 0, 24, <<7, 8, 9, 0>>),
            ReqPutImage(W2, 2, 1, 0, 0, 8, <<7, 8, 0, 0>>)}
      [] sc = "atoms" ->
           {ReqInternAtom(0, <<65>>), ReqInternAtom(0, <<66>>),
            ReqInternAtom(1, <<65>>), ReqInternAtom(0, <<255>>),
            ReqInternAtom(0, <<254>>), ReqInternAtom(0, <<195>>),
            ReqInternAtom(1, <<65, 82, 67>>),   \* "ARC", predefined atom 3
            ReqGetAtomName(1), ReqGetAtomName(69), ReqGetAtomName(2)}

\* how many of the unread bytes one read can return
ChunkSizes(sc, unread) ==
    CASE sc = "framing" -> {n \in 1..unread : n \in {1, 4, 12} \/ n = unread}
      [] sc = "atoms" -> {n \in 1..unread : n = 4 \/ n = unread}
      [] OTHER -> {unread}

----------------------------------------------------------------------------
(* display.rs: ClientHandler::process and handle_client *)

Native_dispatch(h, st, data) ==
    LET opcode == B(data, 0)
    IN  CASE opcode = 1 -> Native_handle_create_window(h, st, data)
          [] opcode = 3 -> Native_get_window_attributes(h, st)
          [] opcode = 4 -> Native_handle_destroy_window(h, st, data)
          [] opcode = 8 -> Native_handle_map_window(h, st, data)
          [] opcode = 10 -> Native_handle_unmap_window(h, st, data)
          [] opcode = 12 -> Native_handle_configure_window(h, st, data)
          [] opcode = 14 -> Native_get_geometry(h, st, data)
          [] opcode = 15 -> Native_query_tree(h, st, data)
          [] opcode = 16 -> Native_intern_atom(h, st, data)
          [] opcode = 17 -> Native_get_atom_name(h, st, data)
          [] opcode = 20 -> Native_get_property(h, st)
          [] opcode = 23 -> Native_get_selection_owner(h, st)
          [] opcode = 38 -> Native_query_pointer(h, st)
          [] opcode = 43 -> Native_get_input_focus(h, st)
          [] opcode = 47 -> Native_query_font(h, st)
          [] opcode = 53 -> Native_handle_create_pixmap(h, st, data)
          [] opcode = 61 -> Native_handle_clear_area(h, st, data)
          [] opcode = 70 -> Native_handle_poly_fill_rectangle(h, st, data)
          [] opcode = 72 -> Native_handle_put_image(h, st, data)
          [] opcode = 73 -> Native_get_image(h, st, data)
          [] opcode = 84 -> Native_alloc_color(h, st)
          [] opcode = 91 -> Native_query_colors(h, st, data)
          [] opcode = 97 -> Native_query_best_size(h, st)
          [] opcode = 98 -> Native_query_extension(h, st, data)
          [] opcode = 99 -> Native_query_keymap(h, st)
          [] opcode = 101 -> Native_get_keyboard_mapping(h, st, data)
          [] opcode = 119 -> Native_get_modifier_mapping(h, st)
          [] opcode = RANDR_MAJOR_OPCODE -> Native_handle_randr(h, st, data)
          [] opcode = XINPUT_MAJOR_OPCODE -> Native_handle_xinput(h, st, data)
          [] opcode = XKB_MAJOR_OPCODE -> Native_handle_xkb(h, st, data)
          [] opcode = GE_MAJOR_OPCODE -> Native_handle_ge(h, st, data)
          [] OTHER -> NRes(h, st, <<>>)

\* ClientHandler::process.  `kind` tells which branch served the call.
Native_process(h, st, data) ==
    IF data = <<>> THEN [NRes(h, st, <<>>) EXCEPT !.kind = "none"]
    ELSE IF ~h.connected /\ (B(data, 0) = 108 \/ B(data, 0) = 66)
    THEN IF Len(data) < 12 THEN [NRes(h, st, <<>>) EXCEPT !.kind = "none"]
         ELSE LET h1 == [h EXCEPT !.connected = TRUE]
              IN  [NRes(h1, st, Native_connection_reply(h1, st)) EXCEPT !.kind = "setup"]
    ELSE IF Len(data) < 4 THEN [NRes(h, st, <<>>) EXCEPT !.kind = "none"]
    ELSE LET h1 == [h EXCEPT !.sequence = WrapInc16(@)]
         IN  [Native_dispatch(h1, st, data) EXCEPT !.kind = "request"]

\* handle_client: `needed`, the bytes the inner loop waits for
Native_needed(h, buf) ==
    IF ~h.connected THEN 12
    ELSE IF Len(buf) >= 4
    THEN (IF U16(buf, 2) * 4 = 0 THEN 4 ELSE U16(buf, 2) * 4)
    ELSE 4

\* What one turn of a codec loop did: the mode the engine was in ("setup" or
\* "request"), which branch served the turn, the offset in the client's byte
\* stream of the buffer's first byte, the bytes buffered, the bytes removed,
\* the sequence counter before and after, the bytes returned, how the turn
\* ended ("ok", "panic", or the kind of Err: "too short", "incomplete",
\* "invalid"), and whether it changed anything the engine keeps.
StepRec(mode, kind, start, avail, consumed, seq0, seq1, reply, res, changed) ==
    [mode |-> mode, kind |-> kind, start |-> start, avail |-> avail,
     consumed |-> consumed, seq0 |-> seq0, seq1 |-> seq1, reply |-> reply,
     res |-> res, changed |-> changed]

\* offset in the client's byte stream of the first byte of `pending`
StreamPos == nread - Len(pending)

\* handle_client, one turn of the inner loop: process(&pending), then
\* pending.drain(..needed) and write_all(&reply); r is what process returned
Native_turn(needed, r) ==
    /\ handler' = r.h
    /\ state' = r.st
    /\ status' = IF r.panic THEN "panicked" ELSE "running"
    /\ pending' = IF r.panic THEN pending ELSE Drain(pending, needed)
    /\ out' = IF r.panic \/ r.reply = <<>> THEN <<>> ELSE <<r.reply>>
    /\ last' = <<StepRec(IF handler.connected THEN "request" ELSE "setup", r.kind,
                         StreamPos, Len(pending), IF r.panic THEN 0 ELSE needed,
                         handler.sequence, r.h.sequence, r.reply,
                         IF r.panic THEN "panic" ELSE "ok",
                         r.h # handler \/ r.st # state)>>

NativeStep ==
    /\ impl = "native"
    /\ status = "running"
    /\ Len(pending) >= Native_needed(handler, pending)
    /\ Native_turn(Native_needed(handler, pending),
                   Native_process(handler, state, pending))
    /\ UNCHANGED <<impl, scenario, wire, sent, nread, connected, tserver,
                   server, overflow_checks, closed, tasks,
                   delivery, bridge, mirror>>

----------------------------------------------------------------------------
(* test_server.rs: TestServer *)

TestServer_new ==
    [sequence |-> 0, root_id |-> 1, width |-> 1280, height |-> 720,
     resource_id_base |-> 2097152, resource_id_mask |-> 2097151,
     atoms |-> EmptyMap, next_atom |-> 1]

TRes(t, reply) == [t |-> t, reply |-> reply, panic |-> FALSE, kind |-> "request"]
TPanic(t) == [t |-> t, reply |-> <<>>, panic |-> TRUE, kind |-> "request"]

Test_connection_reply(t) ==
    LET vendor == <<120, 49, 49, 113, 45, 116, 101, 115, 116>>
        vendor_len == Len(vendor)
        vendor_pad == (4 - (vendor_len % 4)) % 4
        vendor_total == vendor_len + vendor_pad
        additional_data_len == 32 + vendor_total + 8 + 40 + (8 + 24)
        additional_words == additional_data_len \div 4
    IN  <<1, 0>> \o LE16(11) \o LE16(0) \o LE16(additional_words)
        \o LE32(0) \o LE32(t.resource_id_base) \o LE32(t.resource_id_mask)
        \o LE32(0) \o LE16(vendor_len) \o LE16(65535)
        \o <<1, 1, 0, 0, 8, 32, 8, 255>> \o Zeros(4)
        \o vendor \o Zeros(vendor_pad)
        \o <<24, 32, 32>> \o Zeros(5)
        \o LE32(t.root_id) \o LE32(32) \o <<255, 255, 255, 255>> \o LE32(0) \o LE32(0)
        \o LE16(t.width) \o LE16(t.height)
        \o LE16(t.width \div 4) \o LE16(t.height \div 4)
        \o LE16(1) \o LE16(1) \o LE32(33) \o <<0, 1, 24, 1>>
        \o <<24, 0>> \o LE16(1) \o Zeros(4)
        \o LE32(33) \o <<4, 8>> \o LE16(256)
        \o LE32(16711680) \o LE32(65280) \o LE32(255) \o Zeros(4)

Test_get_window_attributes(t) ==
    TRes(t, ReplyHead(0, t.sequence, 3) \o LE32(33) \o LE16(1) \o <<0, 0>>
            \o LE32(0) \o LE32(0) \o <<0, 1, 2, 0>>
            \o LE32(32) \o LE32(0) \o LE32(0) \o LE16(0) \o Zeros(2))

Test_get_geometry(t, data) ==
    IF Len(data) < 8 THEN TPanic(t)
    ELSE
    LET drawable == U32(data, 4)
        w == IF drawable = t.root_id THEN t.width % 65536 ELSE 100
        hh == IF drawable = t.root_id THEN t.height % 65536 ELSE 100
    IN  TRes(t, ReplyHead(24, t.sequence, 0) \o LE32(t.root_id)
                \o LEI16(0) \o LEI16(0) \o LE16(w) \o LE16(hh) \o LE16(0) \o Zeros(10))

Test_query_tree(t, data) ==
    IF Len(data) < 8 THEN TPanic(t)
    ELSE TRes(t, ReplyHead(0, t.sequence, 0) \o LE32(t.root_id) \o LE32(0)
                 \o LE16(0) \o Zeros(14))

Test_intern_atom(t, data) ==
    IF Len(data) < 6 THEN TPanic(t)
    ELSE
    LET only_if_exists == B(data, 1) # 0
        name_len == U16(data, 4)
    IN  IF 8 + name_len > Len(data) THEN TPanic(t)
        ELSE
        LET name == Utf8Lossy(Slice(data, 8, 8 + name_len))
            known == Has(t.atoms, name)
            atom == IF known THEN t.atoms[name]
                    ELSE IF only_if_exists THEN 0
                    ELSE t.next_atom
            t2 == IF known \/ only_if_exists THEN t
                  ELSE [t EXCEPT !.next_atom = @ + 1,
                                 !.atoms = Insert(@, name, atom)]
        IN  TRes(t2, ReplyHead(0, t.sequence, 0) \o LE32(atom) \o Zeros(20))

Test_get_atom_name(t, data) ==
    IF Len(data) < 8 THEN TPanic(t)
    ELSE
    LET atom == U32(data, 4)
        name == AtomNameOf(t.atoms, atom)
        name_len == Len(name)
        pad == (4 - (name_len % 4)) % 4
        words == (name_len + pad) \div 4
    IN  TRes(t, ReplyHead(0, t.sequence, words) \o LE16(name_len) \o Zeros(22)
                \o name \o Zeros(pad))

Test_get_property(t) ==
    TRes(t, ReplyHead(0, t.sequence, 0) \o LE32(0) \o LE32(0) \o LE32(0) \o Zeros(12))

Test_get_selection_owner(t) ==
    TRes(t, ReplyHead(0, t.sequence, 0) \o LE32(0) \o Zeros(20))

Test_query_pointer(t) ==
    TRes(t, ReplyHead(1, t.sequence, 0) \o LE32(t.root_id) \o LE32(0)
            \o LEI16(0) \o LEI16(0) \o LEI16(0) \o LEI16(0) \o LE16(0) \o Zeros(6))

Test_get_input_focus(t) ==
    TRes(t, ReplyHead(0, t.sequence, 0) \o LE32(t.root_id) \o Zeros(20))

\* TestServer.extensions: name -> (major, first_event, first_error)
Test_extensions(name) ==
    IF name = Name_RANDR THEN <<1, RANDR_MAJOR_OPCODE, 89, 147>>
    ELSE IF name = Name_XInputExtension THEN <<1, XINPUT_MAJOR_OPCODE, 147, 135>>
    ELSE IF name = Name_XKEYBOARD THEN <<1, XKB_MAJOR_OPCODE, 85, 137>>
    ELSE IF name = Name_GE THEN <<1, GE_MAJOR_OPCODE, 0, 0>>
    ELSE <<0, 0, 0, 0>>

Test_query_extension(t, data) ==
    IF Len(data) < 6 \/ 8 + U16(data, 4) > Len(data) THEN TPanic(t)
    ELSE
    LET name_len == U16(data, 4)
        name == Utf8Lossy(Slice(data, 8, Max(Min(8, Len(data)), 8 + name_len)))
    IN  TRes(t, ReplyHead(0, t.sequence, 0) \o Test_extensions(name) \o Zeros(20))

Test_get_keyboard_mapping(t, data) ==
    IF Len(data) < 6 THEN TPanic(t)
    ELSE
    LET first == B(data, 4)
        count == B(data, 5)
        words == count * 4
    IN  IF overflow_checks /\ count > 0 /\ first + (count - 1) > 255
        THEN TPanic(t)
        ELSE TRes(t, ReplyHead(4, t.sequence, words) \o Zeros(24)
                     \o Concat([i \in 1..count |->
                           LE32(Keysym((first + i - 1) % 256)) \o Zeros(12)]))

Test_get_modifier_mapping(t) ==
    TRes(t, ReplyHead(2, t.sequence, (8 * 2) \div 4) \o Zeros(24) \o Zeros(16))

Test_query_keymap(t) ==
    TRes(t, ReplyHead(0, t.sequence, 0) \o Zeros(24))

Test_list_fonts_with_info(t) ==
    TRes(t, ReplyHead(0, t.sequence, 7) \o Zeros(52))

Test_query_font(t) ==
    TRes(t, ReplyHead(0, t.sequence, 7) \o Zeros(28))

Test_get_image(t) ==
    TRes(t, ReplyHead(24, t.sequence, 0) \o LE32(33) \o Zeros(20))

Test_alloc_color(t) ==
    TRes(t, ReplyHead(0, t.sequence, 0) \o LE16(65535) \o LE16(65535) \o LE16(65535)
            \o Zeros(2) \o LE32(0) \o Zeros(12))

Test_query_colors(t, data) ==
    LET num_pixels == IF Len(data) >= 8 THEN (Len(data) - 8) \div 4 ELSE 0
        rgb == LE16(65535) \o LE16(65535) \o LE16(65535) \o Zeros(2)
    IN  TRes(t, ReplyHead(0, t.sequence, num_pixels * 2) \o LE16(num_pixels) \o Zeros(22)
                \o Concat([i \in 1..num_pixels |-> rgb]))

Test_query_best_size(t) ==
    TRes(t, ReplyHead(0, t.sequence, 0) \o LE16(16) \o LE16(16) \o Zeros(20))


Test_randr_get_screen_resources(t) ==
    LET w == LE16(t.width)
        hh == LE16(t.height)
    IN  TRes(t, ReplyHead(0, t.sequence, (8 + 1 * 4 + 1 * 4 + 1 * 32 + 8) \div 4)
                \o LE32(0) \o LE32(0) \o LE16(1) \o LE16(1) \o LE16(1) \o LE16(8)
                \o Zeros(8) \o LE32(1) \o LE32(1)
                \o LE32(1) \o w \o hh \o LE32(60000000)
                \o w \o w \o w \o LE16(0) \o hh \o hh \o hh
                \o LE16(7) \o LE32(0)
                \o <<100, 101, 102, 97, 117, 108, 116, 0>>)

Test_randr_get_output_info(t) ==
    TRes(t, ReplyHead(0, t.sequence, (12 + 1 * 4 + 1 * 4 + 0 * 4 + Pad4(7)) \div 4)
            \o LE32(0) \o LE32(1) \o LE32(t.width \div 4) \o LE32(t.height \div 4)
            \o <<1, 0>> \o LE16(1) \o LE16(1) \o LE16(1) \o LE16(0) \o LE16(7)
            \o Zeros(2) \o LE32(1) \o LE32(1)
            \o <<100, 101, 102, 97, 117, 108, 116, 0>>)

Test_randr_get_crtc_info(t) ==
    TRes(t, ReplyHead(0, t.sequence, (8 + 1 * 4 + 1 * 4) \div 4)
            \o LE32(0) \o LEI16(0) \o LEI16(0) \o LE16(t.width) \o LE16(t.height)
            \o LE32(1) \o LE16(1) \o LE16(1) \o LE16(1) \o LE16(1)
            \o LE32(1) \o LE32(1))

Test_handle_randr(t, data) ==
    LET minor == B(data, 1)
    IN  IF minor = 0
        THEN TRes(t, ReplyHead(0, t.sequence, 0) \o LE32(1) \o LE32(6) \o Zeros(16))
        ELSE IF minor = 5 THEN Test_randr_get_screen_resources(t)
        ELSE IF minor = 6 THEN Test_randr_get_output_info(t)
        ELSE IF minor = 9 THEN Test_randr_get_crtc_info(t)
        ELSE IF minor = 25
        THEN TRes(t, ReplyHead(0, t.sequence, 0) \o LE32(1) \o Zeros(20))
        ELSE IF minor = 31
        THEN TRes(t, ReplyHead(0, t.sequence, 0) \o LE32(0) \o LE16(0) \o Zeros(18))
        ELSE TRes(t, <<>>)

Test_xinput_query_device(t) ==
    LET devices ==
            LE16(2) \o LE16(1) \o LE16(3) \o LE16(0) \o LE16(14) \o <<1, 0>>
            \o Name_MasterPointer \o Zeros((4 - (14 % 4)) % 4)
            \o LE16(3) \o LE16(2) \o LE16(2) \o LE16(0) \o LE16(15) \o <<1, 0>>
            \o Name_MasterKeyboard \o Zeros((4 - (15 % 4)) % 4)
    IN  TRes(t, ReplyHead(0, t.sequence, Len(devices) \div 4)
                \o LE16(2) \o Zeros(22) \o devices)

Test_xinput_query_pointer(t) ==
    LET pos == LE32(100 * 65536)
    IN  TRes(t, ReplyHead(0, t.sequence, 4) \o LE32(t.root_id) \o LE32(0)
                \o pos \o pos \o pos \o pos \o <<1, 0>>
                \o LE16(0) \o LE16(0) \o LE16(0) \o LE16(0) \o LE16(0)
                \o <<0, 0, 0, 0>>)

Test_handle_xinput(t, data) ==
    LET minor == B(data, 1)
    IN  IF minor = 1
        THEN TRes(t, ReplyHead(0, t.sequence, 0) \o LE16(2) \o LE16(3) \o Zeros(20))
        ELSE IF minor = 46 THEN Test_xinput_query_device(t)
        ELSE IF minor = 47 THEN Test_xinput_query_pointer(t)
        ELSE IF minor = 48
        THEN TRes(t, ReplyHead(0, t.sequence, 0) \o LE32(t.root_id) \o Zeros(20))
        ELSE IF minor = 61
        THEN TRes(t, ReplyHead(0, t.sequence, 0) \o LE16(0) \o Zeros(22))
        ELSE TRes(t, <<>>)

Test_xkb_get_map(t) ==
    TRes(t, ReplyHead(3, t.sequence, 2) \o Zeros(2) \o <<8, 255>> \o LE16(0)
            \o <<0, 0, 0, 8>> \o LE16(0) \o <<0, 0>> \o LE16(0)
            \o Zeros(14) \o LE16(0))

Test_xkb_get_names(t) ==
    TRes(t, ReplyHead(3, t.sequence, 0) \o LE32(0) \o <<8, 255, 0, 0>> \o LE16(0)
            \o <<8, 0>> \o LE16(0) \o <<0, 0>> \o LE16(0) \o Zeros(6))

Test_xkb_get_controls(t) ==
    TRes(t, ReplyHead(3, t.sequence, 15) \o <<0, 1, 0, 0, 0, 0, 0, 0>>
            \o LE16(0) \o LE16(0) \o LE16(500) \o LE16(30) \o LE16(300)
            \o LE16(300) \o LE16(300) \o LE16(50) \o LE16(10) \o LE16(10)
            \o LEI16(0) \o LE16(0) \o LE16(300) \o LE16(0) \o LE16(0)
            \o Zeros(2) \o LE32(0) \o LE32(0) \o LE32(0) \o Fill(32, 255))

Test_xkb_get_compat_map(t) ==
    TRes(t, ReplyHead(3, t.sequence, 0) \o <<0, 0>> \o LE16(0) \o LE16(0)
            \o LE16(0) \o Zeros(16))

Test_xkb_get_indicator_map(t) ==
    TRes(t, ReplyHead(3, t.sequence, 0) \o LE32(0) \o LE32(0) \o LE32(0) \o Zeros(12))

Test_handle_xkb(t, data) ==
    LET minor == B(data, 1)
    IN  IF minor = 0
        THEN TRes(t, ReplyHead(1, t.sequence, 0) \o LE16(1) \o LE16(0) \o Zeros(20))
        ELSE IF minor = 6 THEN Test_xkb_get_controls(t)
        ELSE IF minor = 8 THEN Test_xkb_get_map(t)
        ELSE IF minor = 10 THEN Test_xkb_get_compat_map(t)
        ELSE IF minor = 13 THEN Test_xkb_get_indicator_map(t)
        ELSE IF minor = 17 \/ minor = 24 THEN Test_xkb_get_names(t)
        ELSE TRes(t, <<>>)

Test_handle_ge(t, data) ==
    IF B(data, 1) = 0
    THEN TRes(t, ReplyHead(0, t.sequence, 0) \o LE16(1) \o LE16(0) \o Zeros(20))
    ELSE TRes(t, <<>>)

Test_dispatch(t, data) ==
    LET opcode == B(data, 0)
    IN  CASE opcode = 3 -> Test_get_window_attributes(t)
          [] opcode = 14 -> Test_get_geometry(t, data)
          [] opcode = 15 -> Test_query_tree(t, data)
          [] opcode = 16 -> Test_intern_atom(t, data)
          [] opcode = 17 -> Test_get_atom_name(t, data)
          [] opcode = 20 -> Test_get_property(t)
          [] opcode = 23 -> Test_get_selection_owner(t)
          [] opcode = 38 -> Test_query_pointer(t)
          [] opcode = 43 -> Test_get_input_focus(t)
          [] opcode = 98 -> Test_query_extension(t, data)
          [] opcode = 101 -> Test_get_keyboard_mapping(t, data)
          [] opcode = 119 -> Test_get_modifier_mapping(t)
          [] opcode = 44 -> Test_list_fonts_with_info(t)
          [] opcode = 47 -> Test_query_font(t)
          [] opcode = 73 -> Test_get_image(t)
          [] opcode = 84 -> Test_alloc_color(t)
          [] opcode = 91 -> Test_query_colors(t, data)
          [] opcode = 97 -> Test_query_best_size(t)
          [] opcode = 99 -> Test_query_keymap(t)
          [] opcode = RANDR_MAJOR_OPCODE -> Test_handle_randr(t, data)
          [] opcode = XINPUT_MAJOR_OPCODE -> Test_handle_xinput(t, data)
          [] opcode = XKB_MAJOR_OPCODE -> Test_handle_xkb(t, data)
          [] opcode = GE_MAJOR_OPCODE -> Test_handle_ge(t, data)
          [] OTHER -> TRes(t, <<>>)

\* TestServer::process
Test_process(t, data) ==
    IF data = <<>> THEN [TRes(t, <<>>) EXCEPT !.kind = "none"]
    ELSE IF B(data, 0) = 108 \/ B(data, 0) = 66
    THEN IF Len(data) < 12 THEN [TRes(t, <<>>) EXCEPT !.kind = "none"]
         ELSE [TRes(t, Test_connection_reply(t)) EXCEPT !.kind = "setup"]
    ELSE IF Len(data) < 4 THEN [TRes(t, <<>>) EXCEPT !.kind = "none"]
    ELSE [Test_dispatch([t EXCEPT !.sequence = WrapInc16(@)], data)
            EXCEPT !.kind = "request"]

\* test_server.rs handle_client: `needed`
Test_needed(conn, buf) ==
    IF ~conn THEN 12
    ELSE IF Len(buf) >= 4
    THEN (IF U16(buf, 2) * 4 = 0 THEN 4 ELSE U16(buf, 2) * 4)
    ELSE 4

\* test_server.rs handle_client, one turn of the inner loop
Test_turn(needed, r) ==
    /\ tserver' = r.t
    /\ status' = IF r.panic THEN "panicked" ELSE "running"
    /\ connected' = IF ~r.panic /\ ~connected /\ r.reply # <<>>
                    THEN TRUE ELSE connected
    /\ pending' = IF r.panic THEN pending ELSE Drain(pending, needed)
    /\ out' = IF r.panic \/ r.reply = <<>> THEN <<>> ELSE <<r.reply>>
    /\ last' = <<StepRec(IF connected THEN "request" ELSE "setup", r.kind,
                         StreamPos, Len(pending), IF r.panic THEN 0 ELSE needed,
                         tserver.sequence, r.t.sequence, r.reply,
                         IF r.panic THEN "panic" ELSE "ok", r.t # tserver)>>

TestStep ==
    /\ impl = "test"
    /\ status = "running"
    /\ Len(pending) >= Test_needed(connected, pending)
    /\ Test_turn(Test_needed(connected, pending), Test_process(tserver, pending))
    /\ UNCHANGED <<impl, scenario, wire, sent, nread, handler, state,
                   server, overflow_checks, closed, tasks,
                   delivery, bridge, mirror>>

----------------------------------------------------------------------------
(* x11q-web: window.rs, drawable.rs, gc.rs, atom.rs, input.rs *)

\* window.rs: WindowAttributes::default()
WindowAttributes_default ==
    [bit_gravity |-> 0, win_gravity |-> 0, backing_planes |-> 0,
     backing_pixel |-> 0, override_redirect |-> FALSE, save_under |-> FALSE,
     event_mask |-> 0, do_not_propagate_mask |-> 0, colormap |-> 0]

\* window.rs: WindowClass as u16
WindowClass_CopyFromParent == 0
WindowClass_InputOutput == 1
WindowClass_InputOnly == 2

Window_new_root(id, width, height, depth, visual) ==
    [id |-> id, parent |-> 0, x |-> 0, y |-> 0, width |-> width,
     height |-> height, border_width |-> 0, depth |-> depth,
     class |-> WindowClass_InputOutput, visual |-> visual, mapped |-> TRUE,
     attributes |-> WindowAttributes_default, children |-> <<>>]

Window_new(id, parent, x, y, width, height, border_width, depth, class, visual) ==
    [id |-> id, parent |-> parent, x |-> x, y |-> y, width |-> width,
     height |-> height, border_width |-> border_width, depth |-> depth,
     class |-> class, visual |-> visual, mapped |-> FALSE,
     attributes |-> WindowAttributes_default, children |-> <<>>]

\* WindowTree: `windows` and `root`
WindowTree_new(root_id, width, height) ==
    [windows |-> Insert(EmptyMap, root_id, Window_new_root(root_id, width, height, 24, 33)),
     root |-> root_id]

\* WindowTree::mapped_windows: the list of (id, abs_x, abs_y, width, height) in `acc.result`;
\* `acc.panicked` when an i16 sum overflowed under overflow checks, or when
\* the recursion ran through more nested calls than there are windows (a
\* cycle of children: the recursion never returns and exhausts the stack)
RECURSIVE WindowTree_collect_mapped(_, _, _, _, _, _, _)
RECURSIVE WindowTree_collect_mapped_children(_, _, _, _, _, _, _, _)
WindowTree_collect_mapped(windows, root, id, parent_x, parent_y, depth, acc) ==
    IF acc.panicked \/ ~Has(windows, id) THEN acc
    ELSE IF ~windows[id].mapped THEN acc
    ELSE IF depth > Cardinality(DOMAIN windows) THEN [acc EXCEPT !.panicked = TRUE]
    ELSE IF overflow_checks /\ (OverflowsI16(parent_x + windows[id].x)
                                \/ OverflowsI16(parent_y + windows[id].y))
    THEN [acc EXCEPT !.panicked = TRUE]
    ELSE WindowTree_collect_mapped_children(windows, root, windows[id].children, 1,
              WrapI16(parent_x + windows[id].x), WrapI16(parent_y + windows[id].y), depth,
              IF id # root
              THEN [acc EXCEPT !.result = Append(@,
                        [id |-> id, abs_x |-> WrapI16(parent_x + windows[id].x),
                         abs_y |-> WrapI16(parent_y + windows[id].y),
                         width |-> windows[id].width, height |-> windows[id].height])]
              ELSE acc)
\* for &child in &children (from the i-th on)
WindowTree_collect_mapped_children(windows, root, children, i, abs_x, abs_y, depth, acc) ==
    IF i > Len(children) THEN acc
    ELSE WindowTree_collect_mapped_children(windows, root, children, i + 1, abs_x, abs_y, depth,
              WindowTree_collect_mapped(windows, root, children[i], abs_x, abs_y, depth + 1, acc))

WindowTree_mapped_windows(tree) ==
    WindowTree_collect_mapped(tree.windows, tree.root, tree.root, 0, 0, 1, [result |-> <<>>, panicked |-> FALSE])

WindowTree_create_window(tree, window) ==
    LET w1 == Insert(tree.windows, window.id, window)
    IN  [tree EXCEPT !.windows =
            IF Has(w1, window.parent)
            THEN [w1 EXCEPT ![window.parent].children = Append(@, window.id)]
            ELSE w1]

\* WindowTree::destroy_window on the map `ws`; the children of the removed
\* window are destroyed in order, each call seeing the map the last one left
RECURSIVE Tree_destroy(_, _)
RECURSIVE Tree_destroy_all(_, _)
Tree_destroy(ws, id) ==
    IF ~Has(ws, id) THEN ws
    ELSE LET window == ws[id]
             w1 == Remove(ws, id)
             w2 == IF Has(w1, window.parent)
                   THEN [w1 EXCEPT ![window.parent].children = Retain(@, id)]
                   ELSE w1
         IN  Tree_destroy_all(w2, window.children)
Tree_destroy_all(ws, ids) ==
    IF ids = <<>> THEN ws
    ELSE Tree_destroy_all(Tree_destroy(ws, Head(ids)), Tail(ids))

WindowTree_destroy_window(tree, id) ==
    [tree EXCEPT !.windows = Tree_destroy(@, id)]

WindowTree_map_window(tree, id) ==
    IF Has(tree.windows, id) THEN [tree EXCEPT !.windows[id].mapped = TRUE] ELSE tree

WindowTree_unmap_window(tree, id) ==
    IF Has(tree.windows, id) THEN [tree EXCEPT !.windows[id].mapped = FALSE] ELSE tree

\* drawable.rs: PixmapStore::create / free
PixmapStore_create(pixmaps, id, drawable, width, height, depth) ==
    Insert(pixmaps, id, [id |-> id, drawable |-> drawable, width |-> width,
                         height |-> height, depth |-> depth])

PixmapStore_free(pixmaps, id) == IF Has(pixmaps, id) THEN Remove(pixmaps, id) ELSE pixmaps

\* gc.rs: GC::new; the fields no handler ever writes keep their defaults
GC_new(id, drawable) ==
    [id |-> id, drawable |-> drawable, foreground |-> 0, background |-> 1]

\* atom.rs: the predefined atoms, PredefinedAtoms[i] is the name of atom i
PredefinedAtoms == <<
    <<80, 82, 73, 77, 65, 82, 89>>,
    <<83, 69, 67, 79, 78, 68, 65, 82, 89>>,
    <<65, 82, 67>>,
    <<65, 84, 79, 77>>,
    <<66, 73, 84, 77, 65, 80>>,
    <<67, 65, 82, 68, 73, 78, 65, 76>>,
    <<67, 79, 76, 79, 82, 77, 65, 80>>,
    <<67, 85, 82, 83, 79, 82>>,
    <<67, 85, 84, 95, 66, 85, 70, 70, 69, 82, 48>>,
    <<67, 85, 84, 95, 66, 85, 70, 70, 69, 82, 49>>,
    <<67, 85, 84, 95, 66, 85, 70, 70, 69, 82, 50>>,
    <<67, 85, 84, 95, 66, 85, 70, 70, 69, 82, 51>>,
    <<67, 85, 84, 95, 66, 85, 70, 70, 69, 82, 52>>,
    <<67, 85, 84, 95, 66, 85, 70, 70, 69, 82, 53>>,
    <<67, 85, 84, 95, 66, 85, 70, 70, 69, 82, 54>>,
    <<67, 85, 84, 95, 66, 85, 70, 70, 69, 82, 55>>,
    <<68, 82, 65, 87, 65, 66, 76, 69>>,
    <<70, 79, 78, 84>>,
    <<73, 78, 84, 69, 71, 69, 82>>,
    <<80, 73, 88, 77, 65, 80>>,
    <<80, 79, 73, 78, 84>>,
    <<82, 69, 67, 84, 65, 78, 71, 76, 69>>,
    <<82, 69, 83, 79, 85, 82, 67, 69, 95, 77, 65, 78, 65, 71, 69, 82>>,
    <<82, 71, 66, 95, 67, 79, 76, 79, 82, 95, 77, 65, 80>>,
    <<82, 71, 66, 95, 66, 69, 83, 84, 95, 77, 65, 80>>,
    <<82, 71, 66, 95, 66, 76, 85, 69, 95, 77, 65, 80>>,
    <<82, 71, 66, 95, 68, 69, 70, 65, 85, 76, 84, 95, 77, 65, 80>>,
    <<82, 71, 66, 95, 71, 82, 65, 89, 95, 77, 65, 80>>,
    <<82, 71, 66, 95, 71, 82, 69, 69, 78, 95, 77, 65, 80>>,
    <<82, 71, 66, 95, 82, 69, 68, 95, 77, 65, 80>>,
    <<83, 84, 82, 73, 78, 71>>,
    <<86, 73, 83, 85, 65, 76, 73, 68>>,
    <<87, 73, 78, 68, 79, 87>>,
    <<87, 77, 95, 67, 79, 77, 77, 65, 78, 68>>,
    <<87, 77, 95, 72, 73, 78, 84, 83>>,
    <<87, 77, 95, 67, 76, 73, 69, 78, 84, 95, 77, 65, 67, 72, 73, 78, 69>>,
    <<87, 77, 95, 73, 67, 79, 78, 95, 78, 65, 77, 69>>,
    <<87, 77, 95, 73, 67, 79, 78, 95, 83, 73, 90, 69>>,
    <<87, 77, 95, 78, 65, 77, 69>>,
    <<87, 77, 95, 78, 79, 82, 77, 65, 76, 95, 72, 73, 78, 84, 83>>,
    <<87, 77, 95, 83, 73, 90, 69, 95, 72, 73, 78, 84, 83>>,
    <<87, 77, 95, 90, 79, 79, 77, 95, 72, 73, 78, 84, 83>>,
    <<77, 73, 78, 95, 83, 80, 65, 67, 69>>,
    <<78, 79, 82, 77, 95, 83, 80, 65, 67, 69>>,
    <<77, 65, 88, 95, 83, 80, 65, 67, 69>>,
    <<69, 78, 68, 95, 83, 80, 65, 67, 69>>,
    <<83, 85, 80, 69, 82, 83, 67, 82, 73, 80, 84, 95, 88>>,
    <<83, 85, 80, 69, 82, 83, 67, 82, 73, 80, 84, 95, 89>>,
    <<83, 85, 66, 83, 67, 82, 73, 80, 84, 95, 88>>,
    <<83, 85, 66, 83, 67, 82, 73, 80, 84, 95, 89>>,
    <<85, 78, 68, 69, 82, 76, 73, 78, 69, 95, 80, 79, 83, 73, 84, 73, 79, 78>>,
    <<85, 78, 68, 69, 82, 76, 73, 78, 69, 95, 84, 72, 73, 67, 75, 78, 69, 83, 83>>,
    <<83, 84, 82, 73, 75, 69, 79, 85, 84, 95, 65, 83, 67, 69, 78, 84>>,
    <<83, 84, 82, 73, 75, 69, 79, 85, 84, 95, 68, 69, 83, 67, 69, 78, 84>>,
    <<73, 84, 65, 76, 73, 67, 95, 65, 78, 71, 76, 69>>,
    <<88, 95, 72, 69, 73, 71, 72, 84>>,
    <<81, 85, 65, 68, 95, 87, 73, 68, 84, 72>>,
    <<87, 69, 73, 71, 72, 84>>,
    <<80, 79, 73, 78, 84, 95, 83, 73, 90, 69>>,
    <<82, 69, 83, 79, 76, 85, 84, 73, 79, 78>>,
    <<67, 79, 80, 89, 82, 73, 71, 72, 84>>,
    <<78, 79, 84, 73, 67, 69>>,
    <<70, 79, 78, 84, 95, 78, 65, 77, 69>>,
    <<70, 65, 77, 73, 76, 89, 95, 78, 65, 77, 69>>,
    <<70, 85, 76, 76, 95, 78, 65, 77, 69>>,
    <<67, 65, 80, 95, 72, 69, 73, 71, 72, 84>>,
    <<87, 77, 95, 67, 76, 65, 83, 83>>,
    <<87, 77, 95, 84, 82, 65, 78, 83, 73, 69, 78, 84, 95, 70, 79, 82>>
>>

AtomStore_new ==
    [by_name |-> [n \in {PredefinedAtoms[i] : i \in 1..Len(PredefinedAtoms)} |->
                    CHOOSE i \in 1..Len(PredefinedAtoms) : PredefinedAtoms[i] = n],
     by_id |-> [i \in 1..Len(PredefinedAtoms) |-> PredefinedAtoms[i]],
     next_id |-> 69]

\* AtomStore::intern: the store it leaves and the Option<u32> it returns
\* (0 stands for None; no atom has id 0)
AtomStore_intern(atoms, name, only_if_exists) ==
    IF Has(atoms.by_name, name)
    THEN [atoms |-> atoms, id |-> atoms.by_name[name], some |-> TRUE]
    ELSE IF only_if_exists
    THEN [atoms |-> atoms, id |-> 0, some |-> FALSE]
    ELSE [atoms |-> [by_name |-> Insert(atoms.by_name, name, atoms.next_id),
                     by_id |-> Insert(atoms.by_id, atoms.next_id, name),
                     next_id |-> atoms.next_id + 1],
          id |-> atoms.next_id, some |-> TRUE]

\* input.rs: Pointer::button_mask
Pointer_button_mask(pointer) == (pointer.buttons * 256) % 65536

\* renderer.rs: create_texture / destroy_texture (the size of each texture)
Renderer_create_texture(textures, id, width, height) ==
    Insert(textures, id, [width |-> Max(width, 1), height |-> Max(height, 1)])

Renderer_destroy_texture(textures, id) ==
    IF Has(textures, id) THEN Remove(textures, id) ELSE textures

X11Server_new(width, height) ==
    [windows |-> WindowTree_new(1, width % 65536, height % 65536),
     pixmaps |-> EmptyMap, gcs |-> EmptyMap, atoms |-> AtomStore_new,
     keyboard |-> [modifiers |-> 0, pressed |-> {}], pointer |-> [x |-> 0, y |-> 0, buttons |-> 0],
     events |-> <<>>, next_id |-> 2097152, focus |-> 1,
     width |-> width, height |-> height, sequence |-> 0,
     state |-> "AwaitingSetup",
     resource_id_base |-> 2097152, resource_id_mask |-> 2097151,
     textures |-> EmptyMap]

\* X11Server::reset
X11Server_reset(s) ==
    [s EXCEPT !.state = "AwaitingSetup", !.sequence = 0, !.events = <<>>,
              !.windows = WindowTree_new(s.windows.root, s.width % 65536,
                                         s.height % 65536),
              !.pixmaps = EmptyMap, !.gcs = EmptyMap, !.atoms = AtomStore_new,
              !.focus = s.windows.root]

----------------------------------------------------------------------------
(* x11q-web server.rs: the request handlers *)

\* What a call of X11Server::process_request leaves behind: the server, and
\* Ok(reply), Err(message) or a panic.  `res` is "ok", "panic", or the kind of
\* the error message: "too short", "incomplete", "invalid".
WRes(s, reply) == [s |-> s, reply |-> reply, res |-> "ok", kind |-> "request"]
WErr(s, msg) == [s |-> s, reply |-> <<>>, res |-> msg, kind |-> "request"]
WPanic(s) == [s |-> s, reply |-> <<>>, res |-> "panic", kind |-> "request"]

\* vec![0u8; n] with reply[0] = 1, reply[1] = detail, reply[2..4] = sequence
WReply(n, detail, sequence) == Put(Put(Zeros(n), 0, <<1, detail>>), 2, LE16(sequence))

Web_error_reply(s, error, bad_value) ==
    WRes(s, Put(Put(Put(Zeros(32), 0, <<0, error>>), 2, LE16(s.sequence)),
                4, LE32(bad_value)))

Web_build_connection_reply(s) ==
    LET vendor == <<120, 49, 49, 113, 45, 119, 101, 98>>
        vendor_len == Len(vendor)
        vendor_pad == (4 - (vendor_len % 4)) % 4
        vendor_total == vendor_len + vendor_pad
        additional_data_len == 32 + vendor_total + 8 * 1 + 40 + (8 + 24)
        additional_words == additional_data_len \div 4
    IN  <<1, 0>> \o LE16(11) \o LE16(0) \o LE16(additional_words)
        \o LE32(0) \o LE32(s.resource_id_base) \o LE32(s.resource_id_mask)
        \o LE32(0) \o LE16(vendor_len) \o LE16(65535)
        \o <<1, 1, 0, 0, 8, 32, 8, 255>> \o Zeros(4)
        \o vendor \o Zeros(vendor_pad)
        \o <<24, 32, 32>> \o Zeros(5)
        \o LE32(s.windows.root) \o LE32(32) \o <<255, 255, 255, 255>> \o LE32(0) \o LE32(0)
        \o LE16(s.width) \o LE16(s.height)
        \o LE16(s.width \div 4) \o LE16(s.height \div 4)
        \o LE16(1) \o LE16(1) \o LE32(33) \o <<0, 1, 24, 1>>
        \o <<24, 0>> \o LE16(1) \o Zeros(4)
        \o LE32(33) \o <<4, 8>> \o LE16(256)
        \o LE32(16711680) \o LE32(65280) \o LE32(255) \o Zeros(4)

Web_handle_connection_setup(s, data) ==
    IF Len(data) < 12 THEN [WErr(s, "too short") EXCEPT !.kind = "setup"]
    ELSE [WRes([s EXCEPT !.state = "Connected"], Web_build_connection_reply(s))
            EXCEPT !.kind = "setup"]

Web_handle_create_window(s, data) ==
    IF Len(data) < 28 THEN WPanic(s)
    ELSE
    LET depth == B(data, 1)
        wid == U32(data, 4)
        parent == U32(data, 8)
        width == U16(data, 16)
        height == U16(data, 18)
        c == U16(data, 22)
        class == IF c = 1 THEN WindowClass_InputOutput
                 ELSE IF c = 2 THEN WindowClass_InputOnly
                 ELSE WindowClass_CopyFromParent
        window == Window_new(wid, parent, I16(data, 12), I16(data, 14), width, height,
                             U16(data, 20), depth, class, U32(data, 24))
    IN  WRes([s EXCEPT !.windows = WindowTree_create_window(@, window),
                       !.textures = Renderer_create_texture(@, wid, width, height)],
             <<>>)

Web_handle_change_window_attributes(s, data) ==
    IF Len(data) < 8 THEN WPanic(s) ELSE WRes(s, <<>>)

Web_handle_get_window_attributes(s, data) ==
    IF Len(data) < 8 THEN WPanic(s)
    ELSE
    LET wid == U32(data, 4)
    IN  IF ~Has(s.windows.windows, wid) THEN Web_error_reply(s, 3, wid)
        ELSE
        LET window == s.windows.windows[wid]
            a == window.attributes
            r1 == Put(WReply(44, 0, s.sequence), 4, LE32(44 \div 4 - 8))
            r2 == Put(Put(r1, 8, LE32(window.visual)), 12, LE16(window.class))
            r3 == Put(r2, 14, <<a.bit_gravity, a.win_gravity>>)
            r4 == Put(Put(r3, 16, LE32(a.backing_planes)), 20, LE32(a.backing_pixel))
            r5 == Put(r4, 24, <<IF a.save_under THEN 1 ELSE 0, 1,
                                IF window.mapped THEN 2 ELSE 0,
                                IF a.override_redirect THEN 1 ELSE 0>>)
            r6 == Put(Put(r5, 28, LE32(a.colormap)), 32, LE32(a.event_mask))
            r7 == Put(Put(r6, 36, LE32(0)), 40, LE16(a.do_not_propagate_mask))
        IN  WRes(s, r7)

Web_handle_destroy_window(s, data) ==
    IF Len(data) < 8 THEN WPanic(s)
    ELSE
    LET wid == U32(data, 4)
    IN  WRes([s EXCEPT !.windows = WindowTree_destroy_window(@, wid),
                       !.textures = Renderer_destroy_texture(@, wid)], <<>>)

\* send_map_notify: a MapNotify event is queued
Web_send_map_notify(s, window) ==
    [s EXCEPT !.events =
        Append(@, Put(Put(Put(Zeros(32), 0, <<19>>), 4, LE32(window)), 8, LE32(window)))]

Web_handle_map_window(s, data) ==
    IF Len(data) < 8 THEN WPanic(s)
    ELSE
    LET wid == U32(data, 4)
    IN  WRes(Web_send_map_notify([s EXCEPT !.windows = WindowTree_map_window(@, wid)], wid),
             <<>>)

Web_handle_unmap_window(s, data) ==
    IF Len(data) < 8 THEN WPanic(s)
    ELSE WRes([s EXCEPT !.windows = WindowTree_unmap_window(@, U32(data, 4))], <<>>)

\* handle_configure_window: the value list is read field by field; a field
\* whose bytes lie past the end of `data` panics after the earlier fields
\* have been written
RECURSIVE Web_configure_from(_, _, _, _, _)
Web_configure_from(w, data, value_mask, k, offset) ==
    IF k = 5 THEN [w |-> w, ok |-> TRUE]
    ELSE IF ~Bit(value_mask, 2 ^ k)
    THEN Web_configure_from(w, data, value_mask, k + 1, offset)
    ELSE IF offset + 2 > Len(data) THEN [w |-> w, ok |-> FALSE]
    ELSE Web_configure_from(
            CASE k = 0 -> [w EXCEPT !.x = I16(data, offset)]
              [] k = 1 -> [w EXCEPT !.y = I16(data, offset)]
              [] k = 2 -> [w EXCEPT !.width = U16(data, offset)]
              [] k = 3 -> [w EXCEPT !.height = U16(data, offset)]
              [] k = 4 -> [w EXCEPT !.border_width = U16(data, offset)],
            data, value_mask, k + 1, offset + 4)

Web_handle_configure_window(s, data) ==
    IF Len(data) < 10 THEN WPanic(s)
    ELSE
    LET wid == U32(data, 4)
        value_mask == U16(data, 8)
    IN  IF ~Has(s.windows.windows, wid) THEN WRes(s, <<>>)
        ELSE
        LET c == Web_configure_from(s.windows.windows[wid], data, value_mask, 0, 12)
            s2 == [s EXCEPT !.windows.windows[wid] = c.w]
        IN  IF c.ok THEN WRes(s2, <<>>) ELSE WPanic(s2)

Web_handle_get_geometry(s, data) ==
    IF Len(data) < 8 THEN WPanic(s)
    ELSE
    LET drawable == U32(data, 4)
    IN  IF ~Has(s.windows.windows, drawable) THEN Web_error_reply(s, 9, drawable)
        ELSE
        LET window == s.windows.windows[drawable]
            r1 == Put(WReply(32, window.depth, s.sequence), 4, LE32(0))
            r2 == Put(r1, 8, LE32(s.windows.root))
            r3 == Put(Put(r2, 12, LEI16(window.x)), 14, LEI16(window.y))
            r4 == Put(Put(r3, 16, LE16(window.width)), 18, LE16(window.height))
        IN  WRes(s, Put(r4, 20, LE16(window.border_width)))

Web_handle_query_tree(s, data) ==
    IF Len(data) < 8 THEN WPanic(s)
    ELSE
    LET wid == U32(data, 4)
    IN  IF ~Has(s.windows.windows, wid) THEN Web_error_reply(s, 3, wid)
        ELSE
        LET window == s.windows.windows[wid]
            children == window.children
            n_children == Len(children) % 65536
            r1 == Put(WReply(32 + Len(children) * 4, 0, s.sequence), 4, LE32(n_children))
            r2 == Put(Put(r1, 8, LE32(s.windows.root)), 12, LE32(window.parent))
            r3 == Put(r2, 16, LE16(n_children))
        IN  WRes(s, Put(r3, 32, LE32s(children)))

\* std::str::from_utf8 failed with error_len() == None: the input ends inside
\* a sequence ("incomplete utf-8 byte sequence from index ..."); otherwise the
\* message is "invalid utf-8 sequence of ... bytes from index ..."
RECURSIVE Utf8ErrorIncomplete(_)
Utf8ErrorIncomplete(d) ==
    IF d = <<>> THEN FALSE
    ELSE LET k == Utf8SeqLen(d)
         IN  IF k > 0 THEN Utf8ErrorIncomplete(Drain(d, k))
             ELSE d[1] >= 194 /\ d[1] <= 244 /\ Utf8BadLen(d) = Len(d)

Web_handle_intern_atom(s, data) ==
    IF Len(data) < 6 THEN WPanic(s)
    ELSE
    LET only_if_exists == B(data, 1) # 0
        name_len == U16(data, 4)
    IN  IF 8 + name_len > Len(data) THEN WPanic(s)
        ELSE
        LET name == Slice(data, 8, 8 + name_len)
        IN  IF ~Utf8Valid(name)
            THEN WErr(s, IF Utf8ErrorIncomplete(name) THEN "incomplete" ELSE "invalid")
            ELSE
            LET r == AtomStore_intern(s.atoms, name, only_if_exists)
                reply == WReply(32, 0, s.sequence)
            IN  WRes([s EXCEPT !.atoms = r.atoms],
                     IF r.some THEN Put(reply, 8, LE32(r.id)) ELSE reply)

Web_handle_get_atom_name(s, data) ==
    IF Len(data) < 8 THEN WPanic(s)
    ELSE
    LET atom == U32(data, 4)
    IN  IF ~Has(s.atoms.by_id, atom) THEN Web_error_reply(s, 5, atom)
        ELSE
        LET name == s.atoms.by_id[atom]
            name_len == Len(name)
            padded_len == Pad4(name_len)
            r1 == Put(WReply(32 + padded_len, 0, s.sequence), 4, LE32(padded_len \div 4))
        IN  WRes(s, Put(Put(r1, 8, LE16(name_len)), 32, name))

Web_handle_get_property(s, data) ==
    IF Len(data) < 12 THEN WPanic(s) ELSE WRes(s, WReply(32, 0, s.sequence))

Web_handle_set_input_focus(s, data) ==
    IF Len(data) < 8 THEN WPanic(s) ELSE WRes([s EXCEPT !.focus = U32(data, 4)], <<>>)

Web_handle_get_input_focus(s) ==
    WRes(s, Put(WReply(32, 0, s.sequence), 8, LE32(s.focus)))

Web_handle_query_pointer(s, data) ==
    IF Len(data) < 8 THEN WPanic(s)
    ELSE
    LET r1 == Put(WReply(32, 1, s.sequence), 8, LE32(s.windows.root))
        r2 == Put(r1, 12, LE32(s.focus))
        r3 == Put(Put(r2, 16, LEI16(s.pointer.x)), 18, LEI16(s.pointer.y))
        r4 == Put(Put(r3, 20, LEI16(s.pointer.x)), 22, LEI16(s.pointer.y))
        \* modifiers | button_mask(): the two masks share no bit
    IN  WRes(s, Put(r4, 24, LE16(s.keyboard.modifiers + Pointer_button_mask(s.pointer))))

Web_handle_create_pixmap(s, data) ==
    IF Len(data) < 16 THEN WPanic(s)
    ELSE
    LET depth == B(data, 1)
        pid == U32(data, 4)
        drawable == U32(data, 8)
        width == U16(data, 12)
        height == U16(data, 14)
    IN  WRes([s EXCEPT !.pixmaps = PixmapStore_create(@, pid, drawable, width, height, depth),
                       !.textures = Renderer_create_texture(@, pid, width, height)],
             <<>>)

Web_handle_free_pixmap(s, data) ==
    IF Len(data) < 8 THEN WPanic(s)
    ELSE
    LET pid == U32(data, 4)
    IN  WRes([s EXCEPT !.pixmaps = PixmapStore_free(@, pid),
                       !.textures = Renderer_destroy_texture(@, pid)], <<>>)

Web_handle_create_gc(s, data) ==
    IF Len(data) < 12 THEN WPanic(s)
    ELSE
    LET gcid == U32(data, 4)
    IN  WRes([s EXCEPT !.gcs = Insert(@, gcid, GC_new(gcid, U32(data, 8)))], <<>>)

Web_handle_change_gc(s, data) ==
    IF Len(data) < 12 THEN WPanic(s)
    ELSE
    LET gcid == U32(data, 4)
        value_mask == U32(data, 8)
        n == Len(data)
    IN  IF ~Has(s.gcs, gcid) THEN WRes(s, <<>>)
        ELSE
        LET g0 == s.gcs[gcid]
            bF == Bit(value_mask, 4)
            bB == Bit(value_mask, 8)
            oF == 12
            oB == IF bF THEN oF + 4 ELSE oF
            okF == ~bF \/ oF + 4 <= n
            okB == okF /\ (~bB \/ oB + 4 <= n)
            g1 == IF bF /\ okF THEN [g0 EXCEPT !.foreground = U32(data, oF)] ELSE g0
            g2 == IF bB /\ okB THEN [g1 EXCEPT !.background = U32(data, oB)] ELSE g1
            s2 == [s EXCEPT !.gcs[gcid] = g2]
        IN  IF okB THEN WRes(s2, <<>>) ELSE WPanic(s2)

Web_handle_free_gc(s, data) ==
    IF Len(data) < 8 THEN WPanic(s)
    ELSE
    LET gcid == U32(data, 4)
    IN  WRes([s EXCEPT !.gcs = IF Has(@, gcid) THEN Remove(@, gcid) ELSE @], <<>>)

\* renderer.rs fill_rect: (width * height * 4) as usize is computed in u32
\* (width * height * 4 >= 2^32, written without leaving 32 bits)
FillRectOverflows(width, height) ==
    height > 0 /\ width > 1073741823 \div height

Web_handle_clear_area(s, data) ==
    IF Len(data) < 16 THEN WPanic(s)
    ELSE
    LET wid == U32(data, 4)
        x == U16(data, 8)
        y == U16(data, 10)
        width == U16(data, 12)
        height == U16(data, 14)
    IN  IF ~Has(s.windows.windows, wid) THEN WRes(s, <<>>)
        ELSE
        LET window == s.windows.windows[wid]
            under == (width = 0 /\ x > window.width) \/ (height = 0 /\ y > window.height)
            w == IF width = 0 THEN window.width - x ELSE width
            hh == IF height = 0 THEN window.height - y ELSE height
        IN  IF overflow_checks /\ (under \/ FillRectOverflows(w, hh))
            THEN WPanic(s)
            ELSE WRes(s, <<>>)

Web_handle_poly_fill_rectangle(s, data) ==
    IF Len(data) < 12 THEN WPanic(s)
    ELSE
    LET rects == PolyRects(data)
    IN  IF overflow_checks
           /\ \E k \in 1..Len(rects) : FillRectOverflows(rects[k].w, rects[k].h)
        THEN WPanic(s)
        ELSE WRes(s, <<>>)

\* handle_put_image writes only to the texture of the drawable; the one
\* arithmetic that can fail is Vec::with_capacity((width * height * 4) as usize)
Web_handle_put_image(s, data) ==
    IF Len(data) < 24 THEN WPanic(s)
    ELSE IF overflow_checks /\ B(data, 1) = 2 /\ (B(data, 21) = 24 \/ B(data, 21) = 32)
            /\ FillRectOverflows(U16(data, 12), U16(data, 14))
    THEN WPanic(s)
    ELSE WRes(s, <<>>)

\* X11Server.extensions: name -> (present, major, first_event, first_error)
Web_extensions(name) ==
    IF name = Name_RANDR THEN <<1, RANDR_MAJOR_OPCODE, 89, 147>>
    ELSE IF name = Name_XInputExtension THEN <<1, XINPUT_MAJOR_OPCODE, 147, 135>>
    ELSE IF name = Name_XKEYBOARD THEN <<1, XKB_MAJOR_OPCODE, 85, 137>>
    ELSE IF name = Name_GE THEN <<1, GE_MAJOR_OPCODE, 0, 0>>
    ELSE <<0, 0, 0, 0>>

Web_handle_query_extension(s, data) ==
    IF Len(data) < 6 \/ 8 + U16(data, 4) > Len(data) THEN WPanic(s)
    ELSE
    LET raw == Slice(data, 8, 8 + U16(data, 4))
        name == IF Utf8Valid(raw) THEN raw ELSE <<>>
    IN  WRes(s, Put(WReply(32, 0, s.sequence), 8, Web_extensions(name)))

Web_handle_get_keyboard_mapping(s) ==
    LET keysyms_per_keycode == 2
        count == 248
        total_syms == count * keysyms_per_keycode
        r1 == Put(WReply(32, keysyms_per_keycode, s.sequence), 4, LE32(total_syms))
        syms == Concat([i \in 1..count |->
                    LET keycode == (i - 1) + 8
                    IN  (IF keycode >= 32 /\ keycode < 128 THEN LE32(keycode) ELSE Zeros(4))
                        \o Zeros(4)])
    IN  WRes(s, r1 \o syms)

Web_handle_get_modifier_mapping(s) ==
    LET r1 == Put(WReply(32 + 8 * 2, 2, s.sequence), 4, LE32(2 * 2))
        r2 == Put(Put(r1, 32, <<50, 62, 66>>), 36, <<37, 105, 64, 108, 77>>)
    IN  WRes(s, Put(r2, 44, <<133, 134>>))

Web_handle_get_selection_owner(s) ==
    WRes(s, Put(WReply(32, 0, s.sequence), 8, LE32(0)))

Web_handle_query_font(s) ==
    WRes(s, Put(WReply(60, 0, s.sequence), 4, LE32(7)))

Web_handle_list_fonts_with_info(s) ==
    WRes(s, Put(WReply(60, 0, s.sequence), 4, LE32(7)))

Web_handle_get_image(s) ==
    WRes(s, Put(WReply(32, 24, s.sequence), 8, LE32(33)))

Web_handle_alloc_color(s) ==
    WRes(s, Put(Put(WReply(32, 0, s.sequence), 8,
                    LE16(65535) \o LE16(65535) \o LE16(65535)), 16, LE32(16777215)))

Web_handle_query_colors(s, data) ==
    LET num_pixels == IF Len(data) >= 8 THEN (Len(data) - 8) \div 4 ELSE 0
        r1 == Put(WReply(32, 0, s.sequence), 4, LE32(num_pixels * 2))
        r2 == Put(r1, 8, LE16(num_pixels))
    IN  WRes(s, r2 \o Concat([i \in 1..num_pixels |->
                    LE16(65535) \o LE16(65535) \o LE16(65535) \o Zeros(2)]))

Web_handle_query_best_size(s) ==
    WRes(s, Put(WReply(32, 0, s.sequence), 8, LE16(16) \o LE16(16)))

Web_handle_query_keymap(s) ==
    WRes(s, WReply(32, 0, s.sequence))

Web_handle_ge(s, data) ==
    IF B(data, 1) = 0
    THEN WRes(s, Put(WReply(32, 0, s.sequence), 8, LE16(1) \o LE16(0)))
    ELSE WRes(s, <<>>)

Web_xinput_query_device(s) ==
    LET devices ==
            LE16(2) \o LE16(1) \o LE16(3) \o LE16(0) \o LE16(14) \o <<1, 0>>
            \o Name_MasterPointer \o Zeros(2)
            \o LE16(3) \o LE16(2) \o LE16(2) \o LE16(0) \o LE16(15) \o <<1, 0>>
            \o Name_MasterKeyboard \o <<0>>
        r1 == Put(WReply(32, 0, s.sequence), 4, LE32(Len(devices) \div 4))
    IN  WRes(s, Put(r1, 8, LE16(2)) \o devices)

Web_xinput_query_pointer(s) ==
    LET pos == LE32(s.pointer.x * 65536)
        r1 == Put(WReply(56, 0, s.sequence), 4, LE32(4))
        r2 == Put(r1, 8, LE32(s.windows.root))
        r3 == Put(r2, 16, pos \o pos \o pos \o pos)
    IN  WRes(s, Put(r3, 32, <<1>>))

Web_handle_xinput(s, data) ==
    LET minor == B(data, 1)
    IN  IF minor = 1
        THEN WRes(s, Put(WReply(32, 0, s.sequence), 8, LE16(2) \o LE16(3)))
        ELSE IF minor = 46 THEN Web_xinput_query_device(s)
        ELSE IF minor = 47 THEN Web_xinput_query_pointer(s)
        ELSE IF minor = 48
        THEN WRes(s, Put(WReply(32, 0, s.sequence), 8, LE32(s.windows.root)))
        ELSE IF minor = 61
        THEN WRes(s, Put(WReply(32, 0, s.sequence), 8, LE16(0)))
        ELSE WRes(s, <<>>)

Web_xkb_get_controls(s) ==
    LET r1 == Put(WReply(92, 3, s.sequence), 4, LE32(15))
        r2 == Put(Put(r1, 9, <<1>>), 22, LE16(500) \o LE16(30))
    IN  WRes(s, Put(r2, 60, Fill(32, 255)))

Web_handle_xkb(s, data) ==
    LET minor == B(data, 1)
    IN  IF minor = 0
        THEN WRes(s, Put(WReply(32, 1, s.sequence), 8, LE16(1) \o LE16(0)))
        ELSE IF minor = 6 THEN Web_xkb_get_controls(s)
        ELSE IF minor = 8
        THEN WRes(s, Put(Put(WReply(40, 3, s.sequence), 4, LE32(2)), 10, <<8, 255>>))
        ELSE IF minor = 10 \/ minor = 13
        THEN WRes(s, WReply(32, 3, s.sequence))
        ELSE IF minor = 17 \/ minor = 24
        THEN WRes(s, Put(WReply(32, 3, s.sequence), 12, <<8, 255>>))
        ELSE WRes(s, <<>>)

Web_randr_get_screen_resources(s) ==
    LET w == LE16(s.width)
        hh == LE16(s.height)
        r1 == Put(WReply(32, 0, s.sequence), 4,
                  LE32((8 + 1 * 4 + 1 * 4 + 1 * 32 + 8) \div 4))
        r2 == Put(r1, 16, LE16(1) \o LE16(1) \o LE16(1) \o LE16(8))
    IN  WRes(s, r2 \o LE32(1) \o LE32(1)
                \o LE32(1) \o w \o hh \o LE32(60000000)
                \o w \o w \o w \o LE16(0) \o hh \o hh \o hh
                \o LE16(7) \o LE32(0)
                \o <<100, 101, 102, 97, 117, 108, 116, 0>>)

Web_randr_get_output_info(s) ==
    LET r1 == Put(WReply(36, 0, s.sequence), 4, LE32((12 + 1 * 4 + 1 * 4 + Pad4(7)) \div 4))
        r2 == Put(r1, 12, LE32(1) \o LE32(s.width \div 4) \o LE32(s.height \div 4))
        r3 == Put(Put(r2, 24, <<1>>), 26, LE16(1) \o LE16(1) \o LE16(1))
        r4 == Put(r3, 34, LE16(7))
    IN  WRes(s, r4 \o LE32(1) \o LE32(1) \o <<100, 101, 102, 97, 117, 108, 116, 0>>)

Web_randr_get_crtc_info(s) ==
    LET r1 == Put(WReply(32, 0, s.sequence), 4, LE32((8 + 1 * 4 + 1 * 4) \div 4))
        r2 == Put(r1, 12, LEI16(0) \o LEI16(0) \o LE16(s.width) \o LE16(s.height))
        r3 == Put(r2, 20, LE32(1) \o LE16(1) \o LE16(1) \o LE16(1) \o LE16(1))
    IN  WRes(s, r3 \o LE32(1) \o LE32(1))

Web_handle_randr(s, data) ==
    LET minor == B(data, 1)
    IN  IF minor = 0
        THEN WRes(s, Put(WReply(32, 0, s.sequence), 8, LE32(1) \o LE32(6)))
        ELSE IF minor = 5 THEN Web_randr_get_screen_resources(s)
        ELSE IF minor = 6 THEN Web_randr_get_output_info(s)
        ELSE IF minor = 9 THEN Web_randr_get_crtc_info(s)
        ELSE IF minor = 25
        THEN WRes(s, Put(WReply(32, 0, s.sequence), 8, LE32(1)))
        ELSE IF minor = 31
        THEN WRes(s, Put(WReply(32, 0, s.sequence), 12, LE16(0)))
        ELSE WRes(s, <<>>)

Web_dispatch(s, data) ==
    LET opcode == B(data, 0)
    IN  CASE opcode = 1 -> Web_handle_create_window(s, data)
          [] opcode = 2 -> Web_handle_change_window_attributes(s, data)
          [] opcode = 3 -> Web_handle_get_window_attributes(s, data)
          [] opcode = 4 -> Web_handle_destroy_window(s, data)
          [] opcode = 8 -> Web_handle_map_window(s, data)
          [] opcode = 10 -> Web_handle_unmap_window(s, data)
          [] opcode = 12 -> Web_handle_configure_window(s, data)
          [] opcode = 14 -> Web_handle_get_geometry(s, data)
          [] opcode = 15 -> Web_handle_query_tree(s, data)
          [] opcode = 16 -> Web_handle_intern_atom(s, data)
          [] opcode = 17 -> Web_handle_get_atom_name(s, data)
          [] opcode = 20 -> Web_handle_get_property(s, data)
          [] opcode = 23 -> Web_handle_get_selection_owner(s)
          [] opcode = 38 -> Web_handle_query_pointer(s, data)
          [] opcode = 42 -> Web_handle_set_input_focus(s, data)
          [] opcode = 43 -> Web_handle_get_input_focus(s)
          [] opcode = 47 -> Web_handle_query_font(s)
          [] opcode = 49 -> Web_handle_list_fonts_with_info(s)
          [] opcode = 53 -> Web_handle_create_pixmap(s, data)
          [] opcode = 54 -> Web_handle_free_pixmap(s, data)
          [] opcode = 55 -> Web_handle_create_gc(s, data)
          [] opcode = 56 -> Web_handle_change_gc(s, data)
          [] opcode = 60 -> Web_handle_free_gc(s, data)
          [] opcode = 61 -> Web_handle_clear_area(s, data)
          [] opcode = 70 -> Web_handle_poly_fill_rectangle(s, data)
          [] opcode = 72 -> Web_handle_put_image(s, data)
          [] opcode = 73 -> Web_handle_get_image(s)
          [] opcode = 84 -> Web_handle_alloc_color(s)
          [] opcode = 91 -> Web_handle_query_colors(s, data)
          [] opcode = 97 -> Web_handle_query_best_size(s)
          [] opcode = 98 -> Web_handle_query_extension(s, data)
          [] opcode = 99 -> Web_handle_query_keymap(s)
          [] opcode = 101 -> Web_handle_get_keyboard_mapping(s)
          [] opcode = 119 -> Web_handle_get_modifier_mapping(s)
          [] opcode = GE_MAJOR_OPCODE -> Web_handle_ge(s, data)
          [] opcode = XINPUT_MAJOR_OPCODE -> Web_handle_xinput(s, data)
          [] opcode = XKB_MAJOR_OPCODE -> Web_handle_xkb(s, data)
          [] opcode = RANDR_MAJOR_OPCODE -> Web_handle_randr(s, data)
          [] OTHER -> WRes(s, <<>>)

Web_handle_request(s, data) ==
    IF Len(data) < 4 THEN [WErr(s, "too short") EXCEPT !.kind = "none"]
    ELSE
    LET length == U16(data, 2) * 4
    IN  IF length > 0 /\ Len(data) < length
        THEN [WErr(s, "incomplete") EXCEPT !.kind = "none"]
        ELSE Web_dispatch([s EXCEPT !.sequence = WrapInc16(@)], data)

Web_process_request(s, data) ==
    IF s.state = "AwaitingSetup" THEN Web_handle_connection_setup(s, data)
    ELSE Web_handle_request(s, data)

----------------------------------------------------------------------------
(* x11q-web input.rs and server.rs: input events and the event queue *)

\* input.rs: Keyboard::js_to_keycode, for the codes the page sends here
Keyboard_js_to_keycode(code) ==
    CASE code = "KeyA" -> 38
      [] code = "ShiftLeft" -> 50
      [] code = "ShiftRight" -> 62
      [] code = "ControlLeft" -> 37
      [] OTHER -> 0

\* input.rs: Keyboard::key_press and key_release, up to update_modifiers
Keyboard_set_pressed(keyboard, keycode, pressed) ==
    IF keycode < 255
    THEN [keyboard EXCEPT !.pressed = IF pressed THEN @ \cup {keycode} ELSE @ \ {keycode}]
    ELSE keyboard

\* input.rs: Keyboard::update_modifiers (called by key_press, key_release)
Keyboard_update_modifiers(keyboard, keycode, pressed) ==
    LET bit == CASE keycode \in {50, 62} -> 1
                 [] keycode \in {37, 105} -> 4
                 [] keycode = 66 -> 2
                 [] keycode \in {64, 108} -> 8
                 [] keycode = 77 -> 16
                 [] keycode \in {133, 134} -> 64
                 [] OTHER -> 0
    IN  IF bit = 0 THEN keyboard
        ELSE IF pressed
        THEN [keyboard EXCEPT !.modifiers = IF Bit(@, bit) THEN @ ELSE @ + bit]
        ELSE [keyboard EXCEPT !.modifiers = IF Bit(@, bit) THEN @ - bit ELSE @]

\* input.rs: Pointer::move_to
Pointer_move_to(pointer, x, y) == [pointer EXCEPT !.x = x, !.y = y]

\* input.rs: Pointer::button_press and button_release, button < 8
Pointer_button_press(pointer, button) ==
    [pointer EXCEPT !.buttons = IF Bit(@, 2 ^ button) THEN @ ELSE @ + 2 ^ button]
Pointer_button_release(pointer, button) ==
    [pointer EXCEPT !.buttons = IF Bit(@, 2 ^ button) THEN @ - 2 ^ button ELSE @]

\* VecDeque::push_back, and the two ends pop can take from
VecDeque_push_back(q, e) == Append(q, e)
VecDeque_pop_back(q) == [some |-> q # <<>>,
                         item |-> IF q = <<>> THEN <<>> ELSE q[Len(q)],
                         rest |-> IF q = <<>> THEN <<>> ELSE SubSeq(q, 1, Len(q) - 1)]
VecDeque_pop_front(q) == [some |-> q # <<>>,
                          item |-> IF q = <<>> THEN <<>> ELSE Head(q),
                          rest |-> IF q = <<>> THEN <<>> ELSE Tail(q)]

\* the 32 bytes of a key or pointer event: code, detail, sequence, time 0,
\* root, event window, child, root x/y, event x/y, state, same-screen
InputEvent(code, detail, sequence, root, event, child, x, y, mask) ==
    Put(Put(Put(Put(Put(Put(Put(Put(Put(Put(Put(
        Zeros(32), 0, <<code, detail>>), 2, LE16(sequence)), 4, LE32(0)),
        8, LE32(root)), 12, LE32(event)), 16, LE32(child)),
        20, LEI16(x)), 22, LEI16(y)), 24, LEI16(x)), 26, LEI16(y)),
        28, LE16(mask) \o <<1>>)

\* X11Server::handle_key_event
X11Server_handle_key_event(s, code, pressed) ==
    LET keycode == Keyboard_js_to_keycode(code)
        keyboard == Keyboard_update_modifiers(
                        Keyboard_set_pressed(s.keyboard, keycode, pressed),
                        keycode, pressed)
        event == InputEvent(IF pressed THEN 2 ELSE 3, keycode, s.sequence,
                            s.windows.root, s.focus, s.focus, s.pointer.x, s.pointer.y,
                            keyboard.modifiers)
    IN  IF keycode = 0 THEN s
        ELSE [s EXCEPT !.keyboard = keyboard, !.events = VecDeque_push_back(@, event)]

\* X11Server::handle_mouse_move: x as i16, y as i16
X11Server_handle_mouse_move(s, x, y) ==
    LET pointer == Pointer_move_to(s.pointer, WrapI16(x), WrapI16(y))
        event == InputEvent(6, 0, s.sequence, s.windows.root, s.focus, 0,
                            WrapI16(x), WrapI16(y),
                            s.keyboard.modifiers + Pointer_button_mask(pointer))
    IN  [s EXCEPT !.pointer = pointer, !.events = VecDeque_push_back(@, event)]

\* X11Server::handle_mouse_button
X11Server_handle_mouse_button(s, button, pressed, x, y) ==
    LET pointer == IF pressed THEN Pointer_button_press(s.pointer, button)
                   ELSE Pointer_button_release(s.pointer, button)
        event == InputEvent(IF pressed THEN 4 ELSE 5, button, s.sequence,
                            s.windows.root, s.focus, 0, WrapI16(x), WrapI16(y),
                            s.keyboard.modifiers + Pointer_button_mask(pointer))
    IN  [s EXCEPT !.pointer = pointer, !.events = VecDeque_push_back(@, event)]

\* X11Server::drain_events: while let Some(event) = pop_front() { extend }
RECURSIVE X11Server_drain_loop(_, _)
X11Server_drain_loop(q, result) ==
    LET popped == VecDeque_pop_front(q)
    IN  IF popped.some THEN X11Server_drain_loop(popped.rest, result \o popped.item)
        ELSE [events |-> q, result |-> result]

X11Server_drain_events(s) ==
    LET r == X11Server_drain_loop(s.events, <<>>)
    IN  [s |-> [s EXCEPT !.events = r.events], result |-> r.result]

----------------------------------------------------------------------------
(* x11q-web lib.rs: process_x11_data *)

\* the loop of process_x11_data from the state (s, buf): `replies` are the
\* replies collected so far, `steps` what each turn did, `pos` the offset of
\* buf in the client's byte stream.  `res` is "ok" for Ok(all_replies), "err"
\* for Err(JsValue), "panic" for a trap.
RECURSIVE Web_loop(_, _, _, _, _)

\* the `match result` of one turn, r being what process_request returned
Web_turn(s, buf, replies, steps, pos, r) ==
    LET consumed == IF s.state = "AwaitingSetup" THEN Len(buf)
                    ELSE IF Len(buf) >= 4
                    THEN (IF U16(buf, 2) * 4 = 0 THEN 4 ELSE U16(buf, 2) * 4)
                    ELSE Len(buf)
        drained == IF consumed <= Len(buf) THEN consumed ELSE Len(buf)
        n == IF r.res = "ok" THEN drained ELSE 0
        step == StepRec(IF s.state = "AwaitingSetup" THEN "setup" ELSE "request",
                        r.kind, pos, Len(buf), n, s.sequence, r.s.sequence, r.reply,
                        r.res, r.s # s)
    IN  CASE r.res = "ok" ->
               Web_loop(r.s, Drain(buf, drained),
                        IF r.reply = <<>> THEN replies ELSE Append(replies, r.reply),
                        Append(steps, step), pos + drained)
          [] r.res = "panic" ->
               [s |-> r.s, buf |-> buf, replies |-> <<>>,
                steps |-> Append(steps, step), res |-> "panic"]
          [] r.res \in {"incomplete", "too short"} ->
               [s |-> r.s, buf |-> buf, replies |-> replies,
                steps |-> Append(steps, step), res |-> "ok"]
          [] OTHER ->
               [s |-> r.s, buf |-> buf, replies |-> <<>>,
                steps |-> Append(steps, step), res |-> "err"]

Web_loop(s, buf, replies, steps, pos) ==
    IF buf = <<>>
    THEN [s |-> s, buf |-> buf, replies |-> replies, steps |-> steps, res |-> "ok"]
    ELSE Web_turn(s, buf, replies, steps, pos, Web_process_request(s, buf))

\* what a call of process_x11_data leaves behind, r being the outcome of its loop
Web_return(r) ==
    /\ server' = r.s
    /\ pending' = r.buf
    /\ out' = r.replies
    /\ last' = r.steps
    /\ status' = IF r.res = "panic" THEN "panicked" ELSE "running"
    /\ delivery' = [delivery EXCEPT !.enqueued =
                        @ \o SubSeq(r.s.events, Len(server.events) + 1, Len(r.s.events))]

WebProcess ==
    /\ impl = "web"
    /\ status = "running"
    /\ wire # <<>>
    /\ \E n \in ChunkSizes(scenario, Len(wire)) :
         /\ Web_return(Web_loop(server, pending \o SubSeq(wire, 1, n), <<>>, <<>>,
                                nread - Len(pending)))
         /\ wire' = Drain(wire, n)
         /\ nread' = nread + n
    /\ UNCHANGED <<impl, scenario, sent, connected, handler, state, tserver,
                   overflow_checks, closed, tasks, bridge, mirror>>

----------------------------------------------------------------------------
(* handle_client: stream.read, and the client writing frames *)

\* stream.read(&mut buf): the inner loop has broken (pending is shorter than
\* needed) and some of the unread bytes arrive
Read ==
    /\ impl \in {"native", "test"}
    /\ status = "running"
    /\ wire # <<>>
    /\ Len(pending) < (IF impl = "native" THEN Native_needed(handler, pending)
                       ELSE Test_needed(connected, pending))
    /\ \E n \in ChunkSizes(scenario, Len(wire)) :
         /\ pending' = pending \o SubSeq(wire, 1, n)
         /\ wire' = Drain(wire, n)
         /\ nread' = nread + n
    /\ out' = <<>>
    /\ last' = <<>>
    /\ UNCHANGED <<impl, scenario, sent, connected, handler, state, tserver, server,
                   status, overflow_checks, closed, tasks,
                   delivery, bridge, mirror>>

\* the frames the client has written on the connections that have ended
FramesClosed == SumSeq([c \in 1..Len(closed) |-> closed[c].frames])

\* the atom table of the engine of this run: name -> id
Atoms ==
    CASE impl = "native" -> handler.atoms
      [] impl = "test" -> tserver.atoms
      [] impl = "web" -> server.atoms.by_name

\* the client writes its next frame: the setup frame first, requests after it
ClientSend ==
    /\ status = "running"
    /\ FramesClosed + Len(sent) < (IF scenario \in {"mapping", "composite", "fill"} THEN MaxMappingFrames ELSE MaxFrames)
    /\ \E frame \in (IF sent = <<>> THEN Setups(scenario) ELSE Requests(scenario)) :
         /\ sent' = Append(sent, frame)
         /\ wire' = wire \o frame
    /\ UNCHANGED <<impl, scenario, nread, pending, connected, handler, state, tserver,
                   server, out, last, status, overflow_checks, closed, tasks,
                   delivery, bridge, mirror>>

----------------------------------------------------------------------------
(* web.rs: X11Bridge, handle_websocket, handle_x11_unix, handle_x11_tcp *)

\* X11Bridge::new: the two mpsc channels, both empty; no X11 client yet.
\* A chunk is [conn |-> the connection that wrote it, n |-> its number].
X11Bridge_new == [to_browser |-> <<>>, from_browser |-> <<>>, conns |-> <<>>,
                  chunks |-> 0]

\* the accept loops of run_web spawn handle_x11_unix or handle_x11_tcp on the
\* shared bridge; handle_x11_unix first drains from_browser_rx with try_recv
BridgeAccept ==
    /\ Len(bridge.conns) < MaxBridgeConnections
    /\ \E transport \in {"unix", "tcp"} :
         bridge' = [bridge EXCEPT
                      !.conns = Append(@, [transport |-> transport, open |-> TRUE,
                                           sent_request |-> FALSE,
                                           received |-> <<>>]),
                      !.from_browser = IF transport = "unix" THEN <<>> ELSE @]
    /\ UNCHANGED <<impl, scenario, wire, sent, nread, pending, connected, handler,
                   state, tserver, server, out, last, status, overflow_checks,
                   closed, tasks, delivery, mirror>>

\* handle_x11_unix, handle_x11_tcp: stream.read returns Ok(n) and the chunk is
\* sent on to_browser_tx
BridgeClientWrite ==
    /\ bridge.chunks < MaxBridgeChunks
    /\ \E c \in 1..Len(bridge.conns) :
         /\ bridge.conns[c].open
         /\ bridge' = [bridge EXCEPT
                         !.to_browser = Append(@, [conn |-> c, n |-> bridge.chunks + 1]),
                         !.chunks = @ + 1,
                         !.conns[c].sent_request = TRUE]
    /\ UNCHANGED <<impl, scenario, wire, sent, nread, pending, connected, handler,
                   state, tserver, server, out, last, status, overflow_checks,
                   closed, tasks, delivery, mirror>>

\* handle_websocket: send_task takes a chunk from to_browser_rx and sends it
\* to the page; recv_task puts the page's answer to it on from_browser_tx
BridgeBrowser ==
    /\ bridge.to_browser # <<>>
    /\ bridge' = [bridge EXCEPT !.to_browser = Tail(@),
                                !.from_browser = Append(@, Head(bridge.to_browser))]
    /\ UNCHANGED <<impl, scenario, wire, sent, nread, pending, connected, handler,
                   state, tserver, server, out, last, status, overflow_checks,
                   closed, tasks, delivery, mirror>>

\* handle_x11_unix (once sent_request), handle_x11_tcp: from_browser_rx.recv()
\* returns a message and stream.write_all writes it to this client's socket
BridgeDeliver ==
    /\ bridge.from_browser # <<>>
    /\ \E c \in 1..Len(bridge.conns) :
         /\ bridge.conns[c].open
         /\ bridge.conns[c].transport = "unix" => bridge.conns[c].sent_request
         /\ bridge' = [bridge EXCEPT
                         !.from_browser = Tail(@),
                         !.conns[c].received = Append(@, Head(bridge.from_browser))]
    /\ UNCHANGED <<impl, scenario, wire, sent, nread, pending, connected, handler,
                   state, tserver, server, out, last, status, overflow_checks,
                   closed, tasks, delivery, mirror>>

\* handle_x11_unix, handle_x11_tcp: stream.read returns Ok(0), the task ends
BridgeClose ==
    /\ \E c \in 1..Len(bridge.conns) :
         /\ bridge.conns[c].open
         /\ bridge' = [bridge EXCEPT !.conns[c].open = FALSE]
    /\ UNCHANGED <<impl, scenario, wire, sent, nread, pending, connected, handler,
                   state, tserver, server, out, last, status, overflow_checks,
                   closed, tasks, delivery, mirror>>

NextBridge ==
    BridgeAccept \/ BridgeClientWrite \/ BridgeBrowser \/ BridgeDeliver \/ BridgeClose

----------------------------------------------------------------------------
(* mirror.rs: the input stream of run_mirror_client and handle_input *)

MSG_KEY == 3
MSG_MOUSE == 4
MSG_MOTION == 5

\* nothing written, nothing decoded.  A message is [type, a, b, bytes]:
\* a, b are keycode and pressed (MSG_KEY), button and pressed (MSG_MOUSE),
\* x and y (MSG_MOTION); bytes is the number of bytes it took on the stream
Mirror_new == [stream |-> <<>>, written |-> <<>>, decoded |-> <<>>]

MirrorMessage(type, a, b, bytes) == [type |-> type, a |-> a, b |-> b, bytes |-> bytes]

\* send.write_all(bytes) for a message m
Mirror_write(m, bytes) ==
    /\ mirror' = [mirror EXCEPT !.stream = @ \o bytes,
                                !.written = Append(@, [m EXCEPT !.bytes = Len(bytes)])]
    /\ UNCHANGED <<impl, scenario, wire, sent, nread, pending, connected, handler,
                   state, tserver, server, out, last, status, overflow_checks,
                   closed, tasks, delivery, bridge>>

\* run_mirror_client: "Send mouse position if changed"
MirrorMotion ==
    /\ Len(mirror.written) < MaxMirrorMessages
    /\ \E mx \in {3, 300} : \E my \in {4} :
         Mirror_write(MirrorMessage(MSG_MOTION, mx, my, 0),
                      <<MSG_MOTION>> \o LE16(mx) \o LE16(my))

\* run_mirror_client: "Send mouse button events"
MirrorMouse ==
    /\ Len(mirror.written) < MaxMirrorMessages
    /\ \E code \in {1, 3} :
         Mirror_write(MirrorMessage(MSG_MOUSE, code, 1, 0), <<MSG_MOUSE, code, 1>>)

\* run_mirror_client: "Send key events" (Key::A is keycode 38)
MirrorKey ==
    /\ Len(mirror.written) < MaxMirrorMessages
    /\ \E keycode \in {38} : \E pressed \in {0, 1} :
         Mirror_write(MirrorMessage(MSG_KEY, keycode, pressed, 0),
                      <<MSG_KEY, keycode, pressed, 0, 0>>)

\* handle_input: the number of bytes read_exact takes after the type byte
Mirror_body(type) ==
    CASE type = MSG_KEY -> 5
      [] type = MSG_MOUSE -> 2
      [] type = MSG_MOTION -> 4
      [] OTHER -> 0

\* handle_input: what a turn of the loop decodes from buf after reading the body
Mirror_decode(type, buf) ==
    CASE type = MSG_KEY ->
           MirrorMessage(MSG_KEY, buf[1], IF buf[2] # 0 THEN 1 ELSE 0, 6)
      [] type = MSG_MOUSE ->
           MirrorMessage(MSG_MOUSE, buf[1], IF buf[2] # 0 THEN 1 ELSE 0, 3)
      [] type = MSG_MOTION ->
           MirrorMessage(MSG_MOTION, I16(buf, 0), I16(buf, 2), 5)
      [] OTHER -> MirrorMessage(type, 0, 0, 1)

\* handle_input, one turn of the loop: read_exact of the type byte and of the
\* body (read_exact waits until the body is there)
MirrorHandleInput ==
    /\ mirror.stream # <<>>
    /\ LET type == mirror.stream[1]
           n == Mirror_body(type)
       IN  /\ Len(mirror.stream) >= 1 + n
           /\ mirror' = [mirror EXCEPT
                           !.stream = Drain(@, 1 + n),
                           !.decoded = Append(@, Mirror_decode(type,
                                                 SubSeq(mirror.stream, 2, 1 + n)))]
    /\ UNCHANGED <<impl, scenario, wire, sent, nread, pending, connected, handler,
                   state, tserver, server, out, last, status, overflow_checks,
                   closed, tasks, delivery, bridge>>

NextMirror == MirrorMotion \/ MirrorMouse \/ MirrorKey \/ MirrorHandleInput

\* nothing pushed on the event queue, nothing returned to the page
NoDelivery == [enqueued |-> <<>>, result |-> <<>>, raised |-> 0]

\* no connection task is running
NoTasks == [conn |-> <<>>, render |-> "sleep", holders |-> {}, committed |-> EmptyMap,
            rseen |-> EmptyMap, rexpected |-> EmptyMap]

InitEngines(scenarios) ==
    /\ impl \in {"native", "test", "web"}
    /\ scenario \in scenarios
    /\ overflow_checks \in BOOLEAN
    /\ wire = <<>>
    /\ sent = <<>>
    /\ nread = 0
    /\ pending = <<>>
    /\ connected = FALSE
    /\ handler = ClientHandler_new
    /\ state = DisplayState_new(ScreenWidth, ScreenHeight)
    /\ tserver = TestServer_new
    /\ server = X11Server_new(ScreenWidth, ScreenHeight)
    /\ out = <<>>
    /\ last = <<>>
    /\ status = "running"
    /\ closed = <<>>
    /\ delivery = NoDelivery
    /\ bridge = X11Bridge_new
    /\ mirror = Mirror_new

\* one connection at a time
InitOf(scenarios) ==
    /\ InitEngines(scenarios)
    /\ tasks = NoTasks

\* The client closes its connection and opens the next one.  native, test:
\* stream.read returns Ok(0), handle_client returns, and the accept loop
\* spawns handle_client for the new stream (a new ClientHandler on the shared
\* DisplayState, a new TestServer).  web: the page calls reset_connection.
NewConnection ==
    /\ status = "running"
    /\ sent # <<>>
    /\ wire = <<>>
    /\ Len(closed) + 1 < MaxConnections
    /\ CASE impl = "native" -> Len(pending) < Native_needed(handler, pending)
         [] impl = "test" -> Len(pending) < Test_needed(connected, pending)
         [] impl = "web" -> TRUE
    /\ closed' = Append(closed, [frames |-> Len(sent), atoms |-> Atoms])
    /\ handler' = IF impl = "native" THEN ClientHandler_new ELSE handler
    /\ tserver' = IF impl = "test" THEN TestServer_new ELSE tserver
    /\ server' = IF impl = "web" THEN X11Server_reset(server) ELSE server
    /\ connected' = FALSE
    /\ pending' = <<>>
    /\ sent' = <<>>
    /\ nread' = 0
    /\ out' = <<>>
    /\ last' = <<>>
    /\ delivery' = NoDelivery
    /\ UNCHANGED <<impl, scenario, wire, state, status, overflow_checks, tasks,
                   bridge, mirror>>

Next == ClientSend \/ Read \/ NativeStep \/ TestStep \/ WebProcess \/ NewConnection

\* KeyboardEvent.code values and pointer positions the page passes in
JsCodes ==
    IF scenario = "keys" THEN {"ShiftLeft", "ShiftRight", "ControlLeft"}
    ELSE {"ShiftLeft", "Unidentified"}
PointerXs == {40000}

\* the events a handler has pushed on the queue of s, t being the server after it
Pushed(s, t) == SubSeq(t.events, Len(s.events) + 1, Len(t.events))

\* what a call of an input entry point of lib.rs leaves behind
Web_input(t) ==
    /\ server' = t
    /\ delivery' = [delivery EXCEPT !.enqueued = @ \o Pushed(server, t),
                                      !.raised = @ + 1]
    /\ UNCHANGED <<impl, scenario, wire, sent, nread, pending, connected, handler, state,
                   tserver, out, last, status, overflow_checks, closed, tasks,
                   bridge, mirror>>

\* the page raises another input event
QueueOpen ==
    /\ impl = "web"
    /\ status = "running"
    /\ delivery.raised < (IF scenario = "keys" THEN MaxKeyEvents ELSE MaxInputs)

\* lib.rs: handle_keydown, handle_keyup
KeyEvent ==
    /\ QueueOpen
    /\ \E code \in JsCodes : \E pressed \in BOOLEAN :
         Web_input(X11Server_handle_key_event(server, code, pressed))

\* lib.rs: handle_mousemove
MouseMove ==
    /\ QueueOpen
    /\ \E x \in PointerXs : Web_input(X11Server_handle_mouse_move(server, x, 0))

\* lib.rs: handle_mousebutton
MouseButton ==
    /\ QueueOpen
    /\ \E pressed \in BOOLEAN :
         Web_input(X11Server_handle_mouse_button(server, 1, pressed, server.pointer.x, 0))

\* lib.rs: get_pending_events
DrainEvents ==
    /\ impl = "web"
    /\ status = "running"
    /\ LET r == X11Server_drain_events(server)
       IN  /\ server' = r.s
           /\ delivery' = [delivery EXCEPT !.enqueued = <<>>, !.result = r.result]
    /\ UNCHANGED <<impl, scenario, wire, sent, nread, pending, connected, handler, state,
                   tserver, out, last, status, overflow_checks, closed, tasks,
                   bridge, mirror>>

NextEvents ==
    \/ ClientSend \/ WebProcess
    \/ KeyEvent \/ MouseMove \/ MouseButton \/ DrainEvents

\* run_display, one turn of the render loop: under the lock, dirty = true and
\* composite (the framebuffer is then handed to the screen)
Render ==
    /\ impl = "native"
    /\ status = "running"
    /\ LET r == DisplayState_composite([state EXCEPT !.dirty = TRUE])
       IN  /\ state' = r.st
           /\ status' = IF r.panic THEN "panicked" ELSE "running"
    /\ UNCHANGED <<impl, scenario, wire, sent, nread, pending, connected, handler,
                   tserver, server, out, last, overflow_checks, closed, tasks,
                   delivery, bridge, mirror>>

NextDisplay == Next \/ Render

----------------------------------------------------------------------------
(* display.rs: connections served at the same time.  Every accepted stream
   is a handle_client task, the render loop is one more task, and all share
   the DisplayState behind one tokio Mutex.  A task is suspended only at its
   awaits: stream.read, the lock() inside a handler, stream.write_all. *)

Conns == 1..MaxConnections
\* the holder id of the render loop
RenderTask == 0

\* a lock whose lock() returns at once, whoever holds it (what the Mutex rules out)
Mutex_always_free(holders) == holders = holders
\* tokio::sync::Mutex::lock returns when nobody holds the lock
Mutex_free(holders) == holders = {}

\* a guard that outlives its handler (what the scoping of `state` rules out)
GuardKept(holders, t) == holders
\* the MutexGuard `state` is dropped when the handler returns (explicitly in
\* connection_reply)
GuardDropped(holders, t) == holders \ {t}

\* ClientHandler::process reaches a lock().await with this frame
Native_locks(h, data) ==
    IF data = <<>> THEN FALSE
    ELSE IF ~h.connected /\ (B(data, 0) = 108 \/ B(data, 0) = 66) THEN Len(data) >= 12
    ELSE IF Len(data) < 4 THEN FALSE
    ELSE LET opcode == B(data, 0)
         IN  CASE opcode = 1 -> Len(data) >= 32
               [] opcode \in {4, 8, 10} -> Len(data) >= 8
               [] opcode \in {12, 70} -> Len(data) >= 12
               [] opcode \in {53, 61} -> Len(data) >= 16
               [] opcode = 72 -> Len(data) >= 24
               [] opcode = 73 -> Len(data) >= 20
               [] opcode \in {14, 15} -> Len(data) >= 8
               [] opcode \in {38, 43, RANDR_MAJOR_OPCODE, XINPUT_MAJOR_OPCODE} -> TRUE
               [] OTHER -> FALSE

\* the DisplayState in the middle of a handler's critical section:
\* handle_create_window after windows.insert and before children.push,
\* handle_destroy_window after windows.remove and before children.retain,
\* handle_configure_window inside resize, after width and height are set
\* and before pixels is replaced
Native_midway(h, st, data) ==
    LET opcode == B(data, 0)
        wid == U32(data, 4)
        done == Native_process(h, st, data).st
    IN  CASE opcode = 1 ->
               [st EXCEPT !.windows = Insert(@, wid,
                   X11Window_new(U32(data, 8), I16(data, 12), I16(data, 14),
                                 Max(U16(data, 16), 1), Max(U16(data, 18), 1),
                                 IF B(data, 1) = 0 THEN 24 ELSE B(data, 1)))]
          [] opcode = 4 /\ Has(st.windows, wid) ->
               [st EXCEPT !.windows = Remove(@, wid)]
          [] opcode = 12 /\ Has(st.windows, wid) /\ Has(done.windows, wid) ->
               [st EXCEPT !.windows[wid] =
                   [done.windows[wid] EXCEPT !.pixels = st.windows[wid].pixels]]
          [] OTHER -> st

NewTask ==
    [pc |-> "read", handler |-> ClientHandler_new, frame |-> <<>>, reads |-> 0,
     reply |-> <<>>, before |-> <<>>, seen |-> EmptyMap, expected |-> EmptyMap,
     acquired |-> 0]

sequential == <<impl, scenario, wire, sent, nread, pending, connected, handler, tserver,
                server, out, last, status, overflow_checks, closed, delivery, bridge, mirror>>

\* stream.read returns a frame
TaskRead(c) ==
    /\ tasks.conn[c].pc = "read"
    /\ tasks.conn[c].reads < MaxTaskFrames
    /\ \E frame \in (IF tasks.conn[c].reads = 0 THEN Setups(scenario) ELSE Requests(scenario)) :
         tasks' = [tasks EXCEPT !.conn[c].pc = "process", !.conn[c].frame = frame,
                                !.conn[c].reads = @ + 1]
    /\ UNCHANGED <<sequential, state>>

\* stream.read returns Ok(0) or Err: the task ends
TaskReadEnds(c) ==
    /\ tasks.conn[c].pc = "read"
    /\ tasks' = [tasks EXCEPT !.conn[c].pc = "done"]
    /\ UNCHANGED <<sequential, state>>

\* handler.process(&pending) runs up to its lock().await, or to its end when
\* the handler takes no lock
TaskCall(c) ==
    /\ tasks.conn[c].pc = "process"
    /\ LET t == tasks.conn[c]
           r == Native_process(t.handler, state, t.frame)
       IN  tasks' = IF Native_locks(t.handler, t.frame)
                    THEN [tasks EXCEPT !.conn[c].pc = "acquire", !.conn[c].acquired = 0]
                    ELSE [tasks EXCEPT !.conn[c].handler = r.h, !.conn[c].reply = r.reply,
                                       !.conn[c].acquired = 0, !.conn[c].frame = <<>>,
                                       !.conn[c].pc = IF r.panic THEN "panicked"
                                                      ELSE IF r.reply # <<>> THEN "write"
                                                      ELSE "read"]
    /\ UNCHANGED <<sequential, state>>

\* self.state.lock().await returns
TaskAcquire(c) ==
    /\ tasks.conn[c].pc = "acquire"
    /\ Mutex_free(tasks.holders)
    /\ tasks' = [tasks EXCEPT !.holders = @ \cup {c}, !.conn[c].pc = "locked",
                              !.conn[c].acquired = @ + 1,
                              !.conn[c].seen = state.windows,
                              !.conn[c].expected = tasks.committed]
    /\ UNCHANGED <<sequential, state>>

\* the first half of a mutation in two steps
TaskMutate(c) ==
    /\ tasks.conn[c].pc = "locked"
    /\ Native_midway(tasks.conn[c].handler, state, tasks.conn[c].frame) # state
    /\ state' = Native_midway(tasks.conn[c].handler, state, tasks.conn[c].frame)
    /\ tasks' = [tasks EXCEPT !.conn[c].pc = "mutating", !.conn[c].before = state]
    /\ UNCHANGED sequential

\* the handler finishes and returns: the guard is dropped
TaskReturn(c) ==
    /\ tasks.conn[c].pc \in {"locked", "mutating"}
    /\ LET t == tasks.conn[c]
           r == Native_process(t.handler, IF t.pc = "mutating" THEN t.before ELSE state,
                               t.frame)
       IN  /\ state' = r.st
           /\ tasks' = [tasks EXCEPT !.holders = GuardDropped(@, c),
                                     !.committed = r.st.windows,
                                     !.conn[c].handler = r.h, !.conn[c].reply = r.reply,
                                     !.conn[c].before = <<>>, !.conn[c].frame = <<>>,
                                     !.conn[c].seen = EmptyMap,
                                     !.conn[c].expected = EmptyMap,
                                     !.conn[c].pc = IF r.panic THEN "panicked"
                                                    ELSE IF r.reply # <<>> THEN "write"
                                                    ELSE "read"]
    /\ UNCHANGED sequential

\* stream.write_all(&reply) returns Ok
TaskWrite(c) ==
    /\ tasks.conn[c].pc = "write"
    /\ tasks' = [tasks EXCEPT !.conn[c].pc = "read", !.conn[c].reply = <<>>]
    /\ UNCHANGED <<sequential, state>>

\* stream.write_all(&reply) returns Err: the task ends
TaskWriteFails(c) ==
    /\ tasks.conn[c].pc = "write"
    /\ tasks' = [tasks EXCEPT !.conn[c].pc = "done"]
    /\ UNCHANGED <<sequential, state>>

\* the render loop: state.lock().await returns
RenderAcquire ==
    /\ tasks.render = "sleep"
    /\ Mutex_free(tasks.holders)
    /\ tasks' = [tasks EXCEPT !.holders = @ \cup {RenderTask}, !.render = "locked",
                              !.rseen = state.windows, !.rexpected = tasks.committed]
    /\ UNCHANGED <<sequential, state>>

\* the render loop: composite, update_with_buffer, end of the block
RenderPass ==
    /\ tasks.render = "locked"
    /\ state' = DisplayState_composite([state EXCEPT !.dirty = TRUE]).st
    /\ tasks' = [tasks EXCEPT !.holders = GuardDropped(@, RenderTask), !.render = "sleep",
                              !.rseen = EmptyMap, !.rexpected = EmptyMap]
    /\ UNCHANGED sequential

NextTasks ==
    \/ \E c \in Conns :
          \/ TaskRead(c) \/ TaskReadEnds(c) \/ TaskCall(c) \/ TaskAcquire(c)
          \/ TaskMutate(c) \/ TaskReturn(c) \/ TaskWrite(c) \/ TaskWriteFails(c)
    \/ RenderAcquire \/ RenderPass

InitTasksOf(sc) ==
    /\ InitEngines({sc})
    /\ impl = "native"
    /\ tasks = [conn |-> [c \in Conns |-> NewTask], render |-> "sleep", holders |-> {},
                committed |-> state.windows, rseen |-> EmptyMap, rexpected |-> EmptyMap]

\* connections served at the same time
InitTasks == InitTasksOf("tasks")
SpecTasks == InitTasks /\ [][NextTasks]_vars

\* connections that end while others go on.  Fairness: a task that can take
\* its next step takes it (the scheduler runs every ready task, a write ends
\* one way or the other) and a task waiting in lock() gets the lock (the
\* tokio Mutex hands the lock out in FIFO order)
InitTeardown == InitTasksOf("teardown")
FairSpecTeardown ==
    /\ InitTeardown /\ [][NextTasks]_vars
    /\ \A c \in Conns :
          /\ WF_vars(TaskCall(c))
          /\ SF_vars(TaskAcquire(c))
          /\ WF_vars(TaskMutate(c) \/ TaskReturn(c))
          /\ WF_vars(TaskWrite(c) \/ TaskWriteFails(c))
    /\ WF_vars(RenderPass)

\* replies and framing
Init == InitOf({"replies", "framing"})
Spec == Init /\ [][Next]_vars

\* the window store
InitTree == InitOf({"tree"})
SpecTree == InitTree /\ [][Next]_vars

\* geometry and lookups
InitGeometry == InitOf({"geometry"})
SpecGeometry == InitGeometry /\ [][Next]_vars

\* mapping and the mapped-window traversal
InitMapping == InitOf({"mapping"})
SpecMapping == InitMapping /\ [][Next]_vars

\* the compositor
InitComposite == InitOf({"composite"})
SpecComposite == InitComposite /\ [][NextDisplay]_vars

\* filling with a graphics context
InitFill == InitOf({"fill"})
SpecFill == InitFill /\ [][Next]_vars

\* x11q-web: input events raised by the page between the client's requests
InitEvents == InitOf({"events"}) /\ impl = "web" /\ ~overflow_checks
SpecEvents == InitEvents /\ [][NextEvents]_vars

\* connections whose first byte is not a byte-order mark
InitSetup == InitOf({"setup"})
SpecSetup == InitSetup /\ [][Next]_vars

\* requests of opcodes no engine handles, between requests it does handle
InitUnknown == InitOf({"unknown"})
SpecUnknown == InitUnknown /\ [][Next]_vars

\* requests processed while later requests are already buffered behind them
InitBuffered == InitOf({"buffered"})
SpecBuffered == InitBuffered /\ [][Next]_vars

\* windows created with their own id, a used id or the root id as parent
InitCycles == InitOf({"cycles"})
SpecCycles == InitCycles /\ [][NextDisplay]_vars

\* graphics contexts changed through value masks
InitGC == InitOf({"gc"})
SpecGC == InitGC /\ [][Next]_vars

\* x11q-web: modifier keys pressed and released
InitKeys == InitOf({"keys"}) /\ impl = "web" /\ ~overflow_checks
SpecKeys == InitKeys /\ [][NextEvents]_vars

\* images written and read back
InitImage == InitOf({"image"})
SpecImage == InitImage /\ [][Next]_vars

\* pixel buffers
InitPixels == InitOf({"pixels"})
SpecPixels == InitPixels /\ [][Next]_vars

\* the atom store
InitAtoms == InitOf({"atoms"})
SpecAtoms == InitAtoms /\ [][Next]_vars

----------------------------------------------------------------------------
(* Claims *)

\* the replies of the request handlers that ran in the last step
RequestReplies ==
    {last[i].reply : i \in {j \in 1..Len(last) : last[j].kind = "request"
                                                  /\ last[j].reply # <<>>}}

\* C1: every non-error reply of a request handler is 32 + 4 * (the u32 length
\* word at bytes 4..8) bytes long, and every error reply is exactly 32 bytes.
C1_ReplyLengthLaw ==
    \A r \in RequestReplies :
        IF B(r, 0) = 0 THEN Len(r) = 32
        ELSE Len(r) >= 8 /\ Len(r) = 32 + 4 * U32(r, 4)

\* the sequence counter of the engine of this run
Sequence ==
    CASE impl = "native" -> handler.sequence
      [] impl = "test" -> tserver.sequence
      [] impl = "web" -> server.sequence

\* offset in the client's byte stream of the first byte of its k-th frame, and
\* of the first byte behind it (frame 1 is the setup frame)
FrameStart(k) == SumSeq([j \in 1..(k - 1) |-> Len(sent[j])])
FrameEnd(k) == SumSeq([j \in 1..k |-> Len(sent[j])])

\* the number of request frames of the client the engine has consumed
RequestsReceived == Cardinality({k \in 2..Len(sent) : FrameEnd(k) <= StreamPos})

\* C2: once the setup frame has been consumed, the sequence counter equals
\* the number of request frames received so far, modulo 2^16.
C2_SequenceCountsRequests ==
    (status = "running" /\ sent # <<>> /\ StreamPos >= FrameEnd(1))
        => Sequence = RequestsReceived % 65536

\* C3: a reply or error reply emitted for the i-th request of the connection
\* carries i mod 2^16, little-endian, at bytes 2..4.
C3_ReplyCarriesSequence ==
    \A n \in 1..Len(last) : \A k \in 2..Len(sent) :
        (last[n].reply # <<>> /\ last[n].start = FrameStart(k))
            => U16(last[n].reply, 2) = (k - 1) % 65536

\* max(4, 4 * length word) of the frame at the head of the buffer of step st
\* (0 while its header is not buffered)
FrameBytes(st) ==
    IF st.avail < 4 THEN 0
    ELSE Max(4, 4 * U16(Concat(sent), st.start + 2))

\* C4: in request mode a frame is processed only when max(4, 4 * length word)
\* bytes are buffered; short of that nothing is output and nothing changes;
\* a processed frame removes exactly that many bytes from the buffer.
C4_RequestFraming ==
    \A n \in 1..Len(last) :
        LET st == last[n]
        IN  (st.mode = "request" /\ st.res # "panic") =>
                IF st.avail < 4 \/ st.avail < FrameBytes(st)
                THEN st.consumed = 0 /\ st.reply = <<>> /\ ~st.changed
                ELSE st.consumed = FrameBytes(st)

\* 12 + pad(auth_name_len) + pad(auth_data_len) of the setup frame the client
\* has written
SetupBytes ==
    LET f == sent[1]
        u16(o) == IF B(f, 0) = 66 THEN 256 * B(f, o) + B(f, o + 1) ELSE U16(f, o)
    IN  12 + Pad4(u16(6)) + Pad4(u16(8))

\* C5: in setup mode the setup frame is emitted only once
\* 12 + pad(auth_name_len) + pad(auth_data_len) bytes are buffered, and
\* exactly that many bytes are consumed: authorization bytes are never taken
\* for a request, and request bytes behind the setup frame are kept.
C5_SetupFraming ==
    \A n \in 1..Len(last) :
        LET st == last[n]
        IN  (st.mode = "setup" /\ st.res # "panic") =>
                IF st.avail < SetupBytes
                THEN st.consumed = 0 /\ st.reply = <<>> /\ ~st.changed
                ELSE st.consumed = SetupBytes /\ st.reply # <<>>

\* whether the engine of this run has marked the connection connected
Connected ==
    CASE impl = "native" -> handler.connected
      [] impl = "test" -> connected
      [] impl = "web" -> server.state = "Connected"

\* C6: the first frame of a connection, and no other, is answered with the
\* connection-setup reply and marks the connection connected; every later
\* frame, whatever its first byte, is dispatched as a request and increments
\* the sequence counter.
C6_SetupReplyOnce ==
    \A n \in 1..Len(last) : \A k \in 1..Len(sent) :
        LET st == last[n]
        IN  (st.start = FrameStart(k) /\ st.consumed > 0) =>
                IF k = 1
                THEN st.kind = "setup" /\ st.reply # <<>> /\ Connected
                ELSE st.kind = "request" /\ st.seq1 = WrapInc16(st.seq0)

\* the window store of the engine of this run, and the id of its root (the
\* test engine keeps no windows)
Windows ==
    CASE impl = "native" -> state.windows
      [] impl = "web" -> server.windows.windows
      [] OTHER -> EmptyMap
RootId ==
    CASE impl = "native" -> state.root_id
      [] impl = "web" -> server.windows.root
      [] OTHER -> tserver.root_id

\* how often id occurs in a child list
Occurrences(children, id) == Cardinality({i \in 1..Len(children) : children[i] = id})

\* C7: every non-root window of the store has a parent that is in the store
\* and whose child list holds the window's id exactly once.
C7_ParentChild ==
    \A w \in DOMAIN Windows \ {RootId} :
        /\ Has(Windows, Windows[w].parent)
        /\ Occurrences(Windows[Windows[w].parent].children, w) = 1

\* the ids on the parent chain of window w in the store ws, at most n links up
RECURSIVE AncestorsWithin(_, _, _)
AncestorsWithin(ws, w, n) ==
    IF n = 0 \/ ~Has(ws, w) THEN {}
    ELSE {ws[w].parent} \cup AncestorsWithin(ws, ws[w].parent, n - 1)
Ancestors(ws, w) == AncestorsWithin(ws, w, Cardinality(DOMAIN ws) + 1)

\* the bytes of the frame the most recent turn of the codec consumed
LastFrame ==
    IF last = <<>> THEN <<>>
    ELSE LET st == last[Len(last)]
         IN  Slice(Concat(sent), st.start, st.start + st.consumed)

\* the engine has taken a step that processed one frame, DestroyWindow(W), W
\* being in the store before the step
DestroyedWindows ==
    {W \in DOMAIN Windows :
        /\ nread' # nread \/ pending' # pending
        /\ Len(last') = 1
        /\ LastFrame' = ReqDestroyWindow(W)}

\* C8: DestroyWindow(W) removes W from its parent's child list and removes W
\* and every descendant of W from the store: no window is left whose
\* ancestor chain contains W.
C8_DestroyRemovesSubtree ==
    [][\A W \in DestroyedWindows :
          /\ ~Has(Windows', W)
          /\ Has(Windows', Windows[W].parent)
                => Occurrences(Windows'[Windows[W].parent].children, W) = 0
          /\ \A w \in DOMAIN Windows' : W \notin Ancestors(Windows', w)]_vars

\* C9: in every state the root window is in the store, is mapped and has
\* parent 0.
C9_RootKept ==
    impl \in {"native", "web"} =>
        /\ Has(Windows, RootId)
        /\ Windows[RootId].mapped
        /\ Windows[RootId].parent = 0

\* what the engine of this run would answer, in the current state, to an
\* InternAtom or a GetAtomName frame
InternAtomReply(frame) ==
    CASE impl = "native" -> Native_intern_atom(handler, state, frame).reply
      [] impl = "test" -> Test_intern_atom(tserver, frame).reply
      [] impl = "web" -> Web_handle_intern_atom(server, frame).reply
GetAtomNameReply(frame) ==
    CASE impl = "native" -> Native_get_atom_name(handler, state, frame).reply
      [] impl = "test" -> Test_get_atom_name(tserver, frame).reply
      [] impl = "web" -> Web_handle_get_atom_name(server, frame).reply

\* the atom id of an InternAtom reply and the name of a GetAtomName reply
\* (0 and the empty name when the bytes are no reply)
AtomIn(reply) == IF Len(reply) >= 12 /\ B(reply, 0) = 1 THEN U32(reply, 8) ELSE 0
NameIn(reply) ==
    IF Len(reply) >= 32 /\ B(reply, 0) = 1
    THEN Slice(reply, 32, 32 + U16(reply, 8)) ELSE <<>>

\* the name bytes of an InternAtom frame
InternName(frame) == Slice(frame, 8, 8 + U16(frame, 4))

\* C10: InternAtom(name, only_if_exists = false) returns a non-zero id, a
\* later InternAtom(name, true or false) returns that id, GetAtomName(id)
\* returns exactly the bytes of name, and no other name has that id.
C10_AtomRoundTrip ==
    \A k \in 2..Len(sent) :
        LET st == last[Len(last)]
            name == InternName(sent[k])
            id == AtomIn(st.reply)
        IN  (/\ last # <<>>
             /\ st.start = FrameStart(k)
             /\ st.consumed > 0 \/ st.changed
             /\ st.res # "panic"
             /\ B(sent[k], 0) = 16 /\ B(sent[k], 1) = 0) =>
                /\ id # 0
                /\ \A only_if_exists \in {0, 1} :
                      AtomIn(InternAtomReply(ReqInternAtom(only_if_exists, name))) = id
                /\ NameIn(GetAtomNameReply(ReqGetAtomName(id))) = name
                /\ \A j \in 2..(k - 1) :
                      (B(sent[j], 0) = 16 /\ InternName(sent[j]) # name) =>
                          AtomIn(InternAtomReply(ReqInternAtom(1, InternName(sent[j])))) # id

\* the step the engine took last processed the client's k-th frame, a request
\* of the given opcode, and returned a reply
Answered(k, opcode) ==
    /\ last # <<>>
    /\ last[Len(last)].start = FrameStart(k)
    /\ last[Len(last)].kind = "request"
    /\ last[Len(last)].reply # <<>>
    /\ B(sent[k], 0) = opcode

IsPredefined(name) == \E i \in 1..Len(PredefinedAtoms) : PredefinedAtoms[i] = name

\* C11: once a connection is set up, InternAtom of the i-th predefined name
\* returns i even with only_if_exists = true, and an InternAtom that creates
\* an atom for a name that is not predefined returns an id >= 69.
C11_PredefinedAtoms ==
    Connected =>
        /\ \A i \in 1..Len(PredefinedAtoms) :
              AtomIn(InternAtomReply(ReqInternAtom(1, PredefinedAtoms[i]))) = i
        /\ \A k \in 2..Len(sent) :
              (Answered(k, 16) /\ B(sent[k], 1) = 0
                 /\ ~IsPredefined(InternName(sent[k])))
                  => AtomIn(last[Len(last)].reply) >= 69

\* C12: atoms are global across connections: a name that had id k on a
\* connection that has ended has id k on the connection open now, where
\* InternAtom of the name returns k, GetAtomName(k) returns the name, and no
\* other name has id k.
C12_AtomsGlobal ==
    \A c \in 1..Len(closed) : \A name \in DOMAIN closed[c].atoms :
        \A k \in {closed[c].atoms[name]} :
            Connected =>
                /\ \A only_if_exists \in {0, 1} :
                      AtomIn(InternAtomReply(ReqInternAtom(only_if_exists, name))) = k
                /\ NameIn(GetAtomNameReply(ReqGetAtomName(k))) = name
                /\ \A other \in DOMAIN Atoms : Atoms[other] = k => other = name

\* C13: no request frame makes the connection task panic: a frame shorter
\* than the layout of its opcode is absorbed or answered with an error.
C13_NoPanic == status # "panicked"

\* the turns of the web engine's last call that ran a request handler
HandlerTurns == {n \in 1..Len(last) : last[n].kind = "request"}

\* C14: in the web engine a complete request that does not parse is removed
\* from the input buffer, so that no later call of process_x11_data runs a
\* handler again on a frame an earlier call has run a handler on.
C14_NoReprocessing ==
    [][(impl = "web" /\ closed' = closed /\ nread' # nread) =>
          \A n \in HandlerTurns : \A m \in HandlerTurns' :
              last'[m].start > last[n].start]_vars

\* the pixmap store of the engine of this run (the native engine keeps its
\* pixmaps in the window store)
Pixmaps == IF impl = "web" THEN server.pixmaps ELSE EmptyMap

\* the engine takes a step that processes exactly one frame, the given one,
\* and does not panic
Processed(frame) ==
    /\ nread' # nread \/ pending' # pending
    /\ closed' = closed
    /\ Len(last') = 1
    /\ last'[1].res = "ok"
    /\ LastFrame' = frame

\* the bytes the last turn of the codec returned
LastReply == IF last = <<>> THEN <<>> ELSE last[Len(last)].reply

\* the stored geometry of drawable D, and the geometry a GetGeometry reply holds
Geometry(D) ==
    IF Has(Windows, D)
    THEN [x |-> Windows[D].x, y |-> Windows[D].y,
          width |-> Windows[D].width, height |-> Windows[D].height]
    ELSE [x |-> 0, y |-> 0, width |-> Pixmaps[D].width, height |-> Pixmaps[D].height]
GeometryIn(reply) ==
    [x |-> I16(reply, 12), y |-> I16(reply, 14),
     width |-> U16(reply, 16), height |-> U16(reply, 18)]

\* the last reply is a 32-byte error record with the given code and bad
\* value and the current sequence number
IsError(code, bad_value) ==
    /\ Len(LastReply) = 32
    /\ B(LastReply, 0) = 0
    /\ B(LastReply, 1) = code
    /\ U16(LastReply, 2) = Sequence
    /\ U32(LastReply, 4) = bad_value

StoresUnchanged == Windows' = Windows /\ Pixmaps' = Pixmaps /\ Atoms' = Atoms

\* C15: GetGeometry(D) returns the stored geometry of D when D is a window or
\* a pixmap, and a 32-byte error 9 with bad value D and the current sequence
\* number otherwise, leaving the stores unchanged; QueryTree of an unknown
\* window gives error 3 and GetAtomName of an unknown atom error 5.
C15_LookupErrors ==
    [][impl # "test" =>
          /\ \A D \in {W1, W2, NoSuchWindow} :
                Processed(ReqGetGeometry(D)) =>
                    IF Has(Windows, D) \/ Has(Pixmaps, D)
                    THEN /\ Len(LastReply') = 32 /\ B(LastReply', 0) = 1
                         /\ GeometryIn(LastReply') = Geometry(D)
                    ELSE IsError(9, D)' /\ StoresUnchanged
          /\ (Processed(ReqQueryTree(NoSuchWindow)) /\ ~Has(Windows, NoSuchWindow))
                => IsError(3, NoSuchWindow)' /\ StoresUnchanged
          /\ (Processed(ReqGetAtomName(69)) /\ \A name \in DOMAIN Atoms : Atoms[name] # 69)
                => IsError(5, 69)' /\ StoresUnchanged]_vars

\* the engine takes a step that processes exactly one frame, a CreateWindow
\* or a CreatePixmap that names the given id, and does not panic
Creates(id) ==
    /\ nread' # nread \/ pending' # pending
    /\ closed' = closed
    /\ Len(last') = 1
    /\ last'[1].res = "ok"
    /\ Len(LastFrame') >= 8
    /\ B(LastFrame', 0) \in {1, 53}
    /\ U32(LastFrame', 4) = id

\* C16: no id is at once a window and a pixmap, and a CreateWindow or a
\* CreatePixmap with an id in use leaves the record stored under that id as
\* it was.
C16_OneDrawablePerId ==
    [][/\ (DOMAIN Windows \cap DOMAIN Pixmaps = {})'
       /\ \A id \in DOMAIN Windows :
             Creates(id) => Has(Windows', id) /\ Windows'[id] = Windows[id]
       /\ \A id \in DOMAIN Pixmaps :
             Creates(id) => Has(Pixmaps', id) /\ Pixmaps'[id] = Pixmaps[id]]_vars

\* the client's k-th frame is GetGeometry(wid), the engine has just answered
\* it, and the frame before it is CreateWindow(wid, ...)
CreatedThenAsked(k) ==
    /\ Answered(k, 14)
    /\ B(sent[k - 1], 0) = 1
    /\ Len(sent[k - 1]) >= 20
    /\ U32(sent[k - 1], 4) = U32(sent[k], 4)

\* C17: CreateWindow(wid, parent, x, y, w, h) followed by GetGeometry(wid)
\* returns x, y, max(w, 1) and max(h, 1).
C17_CreateThenGetGeometry ==
    \A k \in 3..Len(sent) :
        (impl # "test" /\ CreatedThenAsked(k)) =>
            /\ B(LastReply, 0) = 1
            /\ GeometryIn(LastReply) =
                  [x |-> I16(sent[k - 1], 12), y |-> I16(sent[k - 1], 14),
                   width |-> Max(U16(sent[k - 1], 16), 1),
                   height |-> Max(U16(sent[k - 1], 18), 1)]

\* the engines' state
Engine == [handler |-> handler, state |-> state, tserver |-> tserver, server |-> server]

\* what the engine of this run would answer, in the engine state e, to a
\* GetGeometry frame
GetGeometryReply(e, frame) ==
    CASE impl = "native" -> Native_get_geometry(e.handler, e.state, frame).reply
      [] impl = "test" -> Test_get_geometry(e.tserver, frame).reply
      [] impl = "web" -> Web_handle_get_geometry(e.server, frame).reply

\* the border width a GetGeometry reply holds
BorderIn(reply) == U16(reply, 20)

\* the ConfigureWindow frames of the geometry alphabet
ConfigureFrames == {f \in Requests("geometry") : B(f, 0) = 12}

\* the value a ConfigureWindow frame supplies for a mask bit: the values
\* follow the mask in mask-bit order, 4 bytes each
ConfigValue(frame, bit) ==
    U16(frame, 12 + 4 * Cardinality({b \in {1, 2, 4, 8, 16} :
                                       b < bit /\ Bit(U16(frame, 8), b)}))

\* the GetGeometry reply expected after a ConfigureWindow frame, given the
\* reply before it
ConfiguredGeometry(frame, before) ==
    [x |-> IF Bit(U16(frame, 8), 1) THEN ConfigValue(frame, 1) ELSE GeometryIn(before).x,
     y |-> IF Bit(U16(frame, 8), 2) THEN ConfigValue(frame, 2) ELSE GeometryIn(before).y,
     width |-> IF Bit(U16(frame, 8), 4) THEN ConfigValue(frame, 4)
               ELSE GeometryIn(before).width,
     height |-> IF Bit(U16(frame, 8), 8) THEN ConfigValue(frame, 8)
                ELSE GeometryIn(before).height]
ConfiguredBorder(frame, before) ==
    IF Bit(U16(frame, 8), 16) THEN ConfigValue(frame, 16) ELSE BorderIn(before)

\* the native window W1 has a zero-filled pixel buffer of its size
ZeroFilled ==
    impl = "native" =>
        Windows[W1].pixels = Zeros(Windows[W1].width * Windows[W1].height * 4)

\* C18: ConfigureWindow sets exactly the geometry fields whose mask bits are
\* set, from the values in mask-bit order, and leaves the others unchanged,
\* so that a following GetGeometry returns them; when the width or the height
\* changes the pixel buffer is reallocated zero-filled.
C18_ConfigureWindow ==
    [][\A frame \in ConfigureFrames : \A before \in {Engine} : \A after \in {Engine'} :
          (impl # "test" /\ Processed(frame) /\ Has(Windows, W1)) =>
              /\ GeometryIn(GetGeometryReply(after, ReqGetGeometry(W1)))
                    = ConfiguredGeometry(frame, GetGeometryReply(before, ReqGetGeometry(W1)))
              /\ BorderIn(GetGeometryReply(after, ReqGetGeometry(W1)))
                    = ConfiguredBorder(frame, GetGeometryReply(before, ReqGetGeometry(W1)))
              /\ (Geometry(W1).width # Geometry(W1)'.width
                    \/ Geometry(W1).height # Geometry(W1)'.height) => ZeroFilled']_vars

\* C19: in every reachable state of the native display server, every window
\* and pixmap record has pixels.len() = width * height * 4
C19_PixelBufferLength ==
    impl = "native" =>
        \A id \in DOMAIN Windows :
            Len(Windows[id].pixels) = Windows[id].width * Windows[id].height * 4

\* a native window that a ConfigureWindow resized (windows are created 1 high)
\* and a drawing request then wrote into, next to the root
C19_ResizedAndDrawn ==
    /\ impl = "native"
    /\ Has(Windows, W1) /\ Has(Windows, Root)
    /\ Windows[W1].height = 2
    /\ \E i \in 1..Len(Windows[W1].pixels) : Windows[W1].pixels[i] # 0

\* the mapped-window traversal of the engine of this run
MappedWindows ==
    IF impl = "native" THEN DisplayState_collect_mapped_windows(state)
    ELSE WindowTree_mapped_windows(server.windows)

\* the windows below `ids` in the children lists, `ids` included
RECURSIVE Below(_, _)
Below(ids, n) ==
    IF n = 0 THEN ids
    ELSE Below(ids \cup {c \in DOMAIN Windows :
                            \E p \in ids : Has(Windows, p) /\
                                \E i \in 1..Len(Windows[p].children) : Windows[p].children[i] = c},
               n - 1)
Descendants == Below({RootId}, Cardinality(DOMAIN Windows)) \ {RootId}

\* the offsets (x or y) of a window and of all its ancestors, summed
RECURSIVE SumOffsets(_, _, _)
SumOffsets(id, field, n) ==
    IF n = 0 \/ ~Has(Windows, id) THEN 0
    ELSE (IF field = "x" THEN Windows[id].x ELSE Windows[id].y)
         + SumOffsets(Windows[id].parent, field, n - 1)

\* C20: the mapped-window traversal returns every descendant of the root
\* whose own mapped flag is set, each exactly once and never the root, with
\* absolute coordinates that are the sums of the offsets of the window and
\* of all its ancestors
C20_MappedTraversal ==
    impl # "test" =>
        /\ ~MappedWindows.panicked
        /\ \A id \in Descendants :
              Windows[id].mapped =>
                  Cardinality({i \in 1..Len(MappedWindows.result) :
                                  MappedWindows.result[i].id = id}) = 1
        /\ \A i \in 1..Len(MappedWindows.result) :
              /\ MappedWindows.result[i].id # RootId
              /\ MappedWindows.result[i].abs_x
                    = SumOffsets(MappedWindows.result[i].id, "x", Cardinality(DOMAIN Windows))
              /\ MappedWindows.result[i].abs_y
                    = SumOffsets(MappedWindows.result[i].id, "y", Cardinality(DOMAIN Windows))

\* the windows of the store `st` below the root in traversal order: a parent
\* before its children, siblings in the order of the children list
RECURSIVE PreOrder(_, _, _)
RECURSIVE PreOrderAll(_, _, _, _)
PreOrder(st, id, depth) ==
    IF ~Has(st.windows, id) \/ depth > Cardinality(DOMAIN st.windows) THEN <<>>
    ELSE (IF id = st.root_id THEN <<>> ELSE <<id>>)
         \o PreOrderAll(st, st.windows[id].children, 1, depth)
PreOrderAll(st, children, i, depth) ==
    IF i > Len(children) THEN <<>>
    ELSE PreOrder(st, children[i], depth + 1) \o PreOrderAll(st, children, i + 1, depth)

\* the offsets of a window of `st` and of all its ancestors, summed
RECURSIVE AbsoluteOffset(_, _, _, _)
AbsoluteOffset(st, id, field, n) ==
    IF n = 0 \/ ~Has(st.windows, id) THEN 0
    ELSE (IF field = "x" THEN st.windows[id].x ELSE st.windows[id].y)
         + AbsoluteOffset(st, st.windows[id].parent, field, n - 1)

\* the mapped window `id` of `st` covers the screen position (dx, dy)
Covers(st, id, dx, dy) ==
    LET ax == AbsoluteOffset(st, id, "x", Cardinality(DOMAIN st.windows))
        ay == AbsoluteOffset(st, id, "y", Cardinality(DOMAIN st.windows))
    IN  /\ st.windows[id].mapped
        /\ dx >= ax /\ dx < ax + st.windows[id].width
        /\ dy >= ay /\ dy < ay + st.windows[id].height

\* the 0RGB value of the pixel of window `id` shown at (dx, dy)
PixelAt(st, id, dx, dy) ==
    LET ax == AbsoluteOffset(st, id, "x", Cardinality(DOMAIN st.windows))
        ay == AbsoluteOffset(st, id, "y", Cardinality(DOMAIN st.windows))
        o == ((dy - ay) * st.windows[id].width + (dx - ax)) * 4
    IN  st.windows[id].pixels[o + 3] * 65536 + st.windows[id].pixels[o + 2] * 256
        + st.windows[id].pixels[o + 1]

\* what the claim puts at (dx, dy): the pixel of the last covering window in
\* traversal order, or the background
Composited(st, dx, dy) ==
    LET order == PreOrder(st, st.root_id, 1)
        covering == {k \in 1..Len(order) : Covers(st, order[k], dx, dy)}
    IN  IF covering = {} THEN 2105376
        ELSE PixelAt(st, order[CHOOSE k \in covering : \A j \in covering : j <= k], dx, dy)

\* C21: after a compositor pass every framebuffer pixel is the pixel of the
\* last mapped window in traversal order that covers its position, or
\* 0x202020; the framebuffer keeps the size of the screen
C21_Composite ==
    [][\A after \in {state'} :
          (impl = "native" /\ status' = "running" /\ ~after.dirty /\ (state.dirty \/ after # state)) =>
              /\ Len(after.framebuffer) = after.width * after.height
              /\ \A dx \in 0..(after.width - 1) : \A dy \in 0..(after.height - 1) :
                    after.framebuffer[dy * after.width + dx + 1] = Composited(after, dx, dy)]_vars

\* the engine has just processed, as a request, the k-th frame the client sent
ProcessedFrame(k) ==
    /\ Processed(sent[k])
    /\ last'[1].kind = "request"
    /\ last'[1].start = FrameStart(k)

\* the fill colour the claim gives the graphics context `gc` when frame k is
\* processed: the foreground of the last ChangeGC after its CreateGC, 0xFFFFFF
\* when it was never created, and no colour (-1) when created and never changed
FillColour(k, gc) ==
    LET created == {j \in 2..(k - 1) : B(sent[j], 0) = 55 /\ U32(sent[j], 4) = gc}
        changed == {j \in 2..(k - 1) : /\ B(sent[j], 0) = 56 /\ U32(sent[j], 4) = gc
                                         /\ Bit(U32(sent[j], 8), 4)
                                         /\ \E i \in created : i < j}
    IN  IF created = {} THEN 16777215
        ELSE IF changed = {} THEN -1
        ELSE U32(sent[CHOOSE j \in changed : \A i \in changed : i <= j], 12)

\* the pixel (px, py) of a drawable lies inside a rectangle of the fill frame
InFill(frame, px, py) ==
    \E r \in 1..Len(PolyRects(frame)) :
        /\ px >= PolyRects(frame)[r].x /\ px < PolyRects(frame)[r].x + PolyRects(frame)[r].w
        /\ py >= PolyRects(frame)[r].y /\ py < PolyRects(frame)[r].y + PolyRects(frame)[r].h

\* C22: PolyFillRectangle(d, gc, rects) gives every pixel of d inside a
\* rectangle the foreground colour of gc (0xFFFFFF when gc is unknown) and
\* leaves every other pixel of d unchanged (native engine: the pixels of the
\* x11q-web engine live in GPU textures)
C22_FillUsesForeground ==
    [][\A k \in 2..Len(sent) : \A before \in {Windows} : \A after \in {Windows'} :
          (/\ impl = "native" /\ ProcessedFrame(k) /\ B(sent[k], 0) = 70
           /\ Has(before, U32(sent[k], 4)) /\ FillColour(k, U32(sent[k], 8)) >= 0) =>
              LET d == U32(sent[k], 4)
                  c == FillColour(k, U32(sent[k], 8))
              IN  \A p \in 0..(before[d].width * before[d].height - 1) :
                      IF InFill(sent[k], p % before[d].width, p \div before[d].width)
                      THEN /\ after[d].pixels[4 * p + 1] = c % 256
                           /\ after[d].pixels[4 * p + 2] = (c \div 256) % 256
                           /\ after[d].pixels[4 * p + 3] = (c \div 65536) % 256
                      ELSE \A i \in 1..4 : after[d].pixels[4 * p + i] = before[d].pixels[4 * p + i]]_vars

\* frame k - 1 is a PutImage (ZPixmap, depth 24) of a rectangle that lies
\* inside its drawable and carries the whole image, and frame k is the
\* GetImage of the same rectangle, just answered
WrittenThenRead(k) ==
    /\ Answered(k, 73)
    /\ Len(sent[k]) >= 20 /\ Len(sent[k - 1]) >= 24
    /\ B(sent[k - 1], 0) = 72 /\ B(sent[k - 1], 1) = 2 /\ B(sent[k - 1], 21) = 24
    /\ U32(sent[k - 1], 4) = U32(sent[k], 4)
    /\ U16(sent[k - 1], 12) = U16(sent[k], 12) /\ U16(sent[k - 1], 14) = U16(sent[k], 14)
    /\ I16(sent[k - 1], 16) = I16(sent[k], 8) /\ I16(sent[k - 1], 18) = I16(sent[k], 10)
    /\ Len(sent[k - 1]) = 24 + 4 * U16(sent[k], 12) * U16(sent[k], 14)
    /\ \/ /\ Has(Windows, U32(sent[k], 4))
          /\ I16(sent[k], 8) >= 0 /\ I16(sent[k], 10) >= 0
          /\ I16(sent[k], 8) + U16(sent[k], 12) <= Windows[U32(sent[k], 4)].width
          /\ I16(sent[k], 10) + U16(sent[k], 14) <= Windows[U32(sent[k], 4)].height
       \/ /\ Has(Pixmaps, U32(sent[k], 4))
          /\ I16(sent[k], 8) >= 0 /\ I16(sent[k], 10) >= 0
          /\ I16(sent[k], 8) + U16(sent[k], 12) <= Pixmaps[U32(sent[k], 4)].width
          /\ I16(sent[k], 10) + U16(sent[k], 14) <= Pixmaps[U32(sent[k], 4)].height

\* C23: PutImage(format 2, depth 24) of a rectangle inside a drawable, then
\* GetImage of the same rectangle: the reply carries the bytes written, and
\* its length word counts them
C23_PutThenGetImage ==
    \A k \in 3..Len(sent) :
        (impl # "test" /\ WrittenThenRead(k)) =>
            /\ B(LastReply, 0) = 1
            /\ Drain(LastReply, 32) = Drain(sent[k - 1], 24)
            /\ U32(LastReply, 4) * 4 = Len(LastReply) - 32

\* C24: no connection task holds the DisplayState lock while it awaits a
\* socket read or write; a handler acquires the lock at most once and has
\* released it when its reply is written; two tasks never hold it together
C24_NoLockAcrossIO ==
    /\ \A c \in DOMAIN tasks.conn :
          /\ tasks.conn[c].pc \notin {"locked", "mutating"} => c \notin tasks.holders
          /\ tasks.conn[c].acquired <= 1
    /\ Cardinality(tasks.holders) <= 1

\* one task is writing the reply of a handler that took the lock while
\* another task holds the lock
C24_WritesWhileOtherHolds ==
    \E c, d \in DOMAIN tasks.conn :
        /\ c # d
        /\ tasks.conn[c].pc = "write" /\ tasks.conn[c].acquired = 1
        /\ tasks.conn[d].pc \in {"locked", "mutating"} /\ d \in tasks.holders

\* the stores that tasks observing the windows have seen on acquiring the
\* lock, each with the store the handlers completed before had left: the
\* GetGeometry and QueryTree handlers, and the compositor
Observations ==
    {<<tasks.conn[c].seen, tasks.conn[c].expected>> :
        c \in {d \in DOMAIN tasks.conn : /\ tasks.conn[d].pc = "locked"
                                          /\ B(tasks.conn[d].frame, 0) \in {14, 15}}}
    \cup (IF tasks.render = "locked" THEN {<<tasks.rseen, tasks.rexpected>>} ELSE {})

\* every window of the store `ws` is in the child list of its parent (the
\* root and the pixmaps have parent 0), and has a pixel buffer of its size
WholeStore(ws) ==
    \A w \in DOMAIN ws :
        /\ ws[w].parent # 0 =>
              /\ Has(ws, ws[w].parent)
              /\ Occurrences(ws[ws[w].parent].children, w) >= 1
        /\ Len(ws[w].pixels) = ws[w].width * ws[w].height * 4

\* C25: a QueryTree, a GetGeometry or a compositor pass on another task sees
\* all or none of the effects of a CreateWindow, DestroyWindow or
\* ConfigureWindow: the store it sees is the one left by the handlers that
\* completed before it acquired the lock, with every window in its parent's
\* child list and every pixel buffer of the window's size
C25_AtomicMutations ==
    \A o \in Observations :
        /\ o[1] = o[2]
        /\ WholeStore(o[1])

\* C26: a connection task that has ended (read EOF or error, failed write)
\* holds no lock, and the other connections and the render loop go on:
\* every request a task has read is processed and its reply written (or that
\* task's own write fails), and the render loop finishes every pass
C26_TeardownLeavesOthersRunning ==
    /\ [](\A c \in DOMAIN tasks.conn :
            tasks.conn[c].pc = "done" => c \notin tasks.holders)
    /\ \A c \in Conns :
          (tasks.conn[c].pc = "process") ~> (tasks.conn[c].pc \in {"read", "done"})
    /\ (tasks.render = "locked") ~> (tasks.render = "sleep")

\* one connection has ended after its setup while another waits for the lock
\* that a third party holds
C26_OneEndedOtherWaiting ==
    \E c, d \in DOMAIN tasks.conn :
        /\ c # d
        /\ tasks.conn[c].pc = "done" /\ tasks.conn[c].reads >= 1
        /\ tasks.conn[d].pc = "acquire"
        /\ tasks.holders = {RenderTask}

----------------------------------------------------------------------------
(* Events *)

\* a turn of the codec that called handle_map_window
IsMapStep(st) ==
    /\ st.mode = "request"
    /\ st.res = "ok"
    /\ st.consumed >= 8
    /\ B(Slice(Concat(sent), st.start, st.start + st.consumed), 0) = 8

\* the value of the sequence counter at each push of a step of the web
\* engine, in the order of the pushes: an input entry point pushes at the
\* counter it finds, process_x11_data pushes one MapNotify in each turn that
\* handles a MapWindow, the counter counting that request already
EnqueueCounters(before, pushed, steps) ==
    IF nread' = nread THEN [j \in 1..Len(pushed) |-> before.sequence]
    ELSE LET turns == SelectSeq(steps, IsMapStep)
         IN  [j \in 1..Len(turns) |-> turns[j].seq1]

\* C27: every event pushed on the queue (KeyPress, KeyRelease, ButtonPress,
\* ButtonRelease, MotionNotify, MapNotify) carries at bytes 2..4 the value
\* the sequence counter had when it was pushed.
C27_EventsCarrySequence ==
    [][\A before \in {server} : \A after \in {server'} : \A steps \in {last'} :
          (impl = "web" /\ closed' = closed /\ Len(after.events) > Len(before.events))
              => LET pushed == Pushed(before, after)
                     counters == EnqueueCounters(before, pushed, steps)
                 IN  /\ Len(counters) = Len(pushed)
                     /\ \A j \in 1..Len(pushed) : U16(pushed[j], 2) = counters[j]]_vars

\* the part of C27 that holds: the events of the input entry points
InputEventsCarrySequence ==
    [][\A before \in {server} : \A after \in {server'} :
          (impl = "web" /\ closed' = closed /\ nread' = nread
             /\ Len(after.events) > Len(before.events))
              => \A j \in 1..Len(Pushed(before, after)) :
                    /\ U16(Pushed(before, after)[j], 2) = before.sequence
                    /\ B(Pushed(before, after)[j], 0) \in {2, 3, 4, 5, 6}]_vars

\* an input event is in the queue that was pushed at a counter above zero
InputEventQueued ==
    \E j \in 1..Len(server.events) :
        B(server.events[j], 0) \in {2, 3, 4, 5, 6} /\ U16(server.events[j], 2) > 0

\* the step is a call of get_pending_events
Drained ==
    /\ impl = "web"
    /\ sent' = sent /\ nread' = nread /\ closed' = closed
    /\ delivery'.raised = delivery.raised

\* C28: drain_events returns the concatenation, in the order they were
\* pushed, of all events pushed since the previous drain, 32 bytes each, and
\* leaves the queue empty, so every event is delivered once and in FIFO order.
C28_DrainInOrder ==
    [][Drained => /\ delivery'.result = Concat(delivery.enqueued)
                  /\ Len(delivery'.result) = 32 * Len(delivery.enqueued)
                  /\ server'.events = <<>>
                  /\ delivery'.enqueued = <<>>]_vars

\* a drain has returned two events of different kinds, a third event pushed
\* after it is waiting
C28_TwoDrainedOneWaiting ==
    /\ Len(delivery.result) = 64
    /\ delivery.result[1] # delivery.result[33]
    /\ Len(server.events) = 1

----------------------------------------------------------------------------
(* Setup validation and unknown opcodes *)

\* the engine takes its first turn on a connection whose first byte is
\* neither 0x6C nor 0x42
FirstTurnOnBadByteOrder ==
    /\ sent # <<>>
    /\ B(sent[1], 0) \notin {108, 66}
    /\ closed' = closed
    /\ StreamPos = 0
    /\ nread' # nread \/ pending' # pending
    /\ last' # <<>>
    /\ last'[1].start = 0

\* C29: when the first byte of a connection is neither 0x6C nor 0x42 the
\* connection is terminated: no connection reply (no byte at all) is emitted,
\* no request handler is invoked, the sequence counter does not advance, the
\* resource store is unchanged, and the connection does not become connected.
C29_InvalidByteOrderIsFatal ==
    [][FirstTurnOnBadByteOrder
          => /\ out' = <<>>
             /\ \A n \in 1..Len(last') : last'[n].kind # "request"
             /\ Sequence' = Sequence
             /\ Windows' = Windows
             /\ Pixmaps' = Pixmaps
             /\ ~Connected']_vars

\* opcodes the client sends that neither display.rs nor server.rs has a match
\* arm for: PolySegment (66, the value of the big-endian byte-order mark) and 200
UnknownOpcodes == {66, 200}

\* a turn of the codec that dispatched a request of an unknown opcode
IsUnknownTurn(st) ==
    /\ st.mode = "request"
    /\ st.kind = "request"
    /\ B(Concat(sent), st.start) \in UnknownOpcodes

\* frame k of the connection is a request of an unknown opcode
UnknownFrame(k) == k \in 2..Len(sent) /\ B(sent[k], 0) \in UnknownOpcodes

\* C30: a request whose opcode has no handler produces no output bytes and
\* leaves the window, pixmap, GC and atom stores, the event queue and the
\* connection state as they were, the sequence counter alone going up by
\* one; its bytes are consumed exactly, and the request after it is answered
\* as usual (here GetInputFocus, frame k of the connection: a 32-byte reply
\* carrying k - 1, the number of requests sent so far).
C30_UnknownOpcodeAbsorbed ==
    [][\A before \in {Engine} : \A after \in {Engine'} : \A steps \in {last'} :
          (impl \in {"native", "web"} /\ closed' = closed
             /\ (nread' # nread \/ pending' # pending))
          => /\ \A n \in 1..Len(steps) :
                   IsUnknownTurn(steps[n])
                     => /\ steps[n].res = "ok"
                        /\ steps[n].reply = <<>>
                        /\ steps[n].seq1 = (steps[n].seq0 + 1) % 65536
                        /\ \E k \in 2..Len(sent) :
                              /\ steps[n].start = FrameStart(k)
                              /\ steps[n].consumed = Len(sent[k])
             /\ \A k \in 2..Len(sent) :
                   (ProcessedFrame(k) /\ UnknownFrame(k))
                     => /\ out' = <<>>
                        /\ after.state = before.state
                        /\ after.handler =
                              IF impl = "native"
                              THEN [before.handler EXCEPT !.sequence = (@ + 1) % 65536]
                              ELSE before.handler
                        /\ after.server =
                              IF impl = "web"
                              THEN [before.server EXCEPT !.sequence = (@ + 1) % 65536]
                              ELSE before.server
             /\ \A k \in 3..Len(sent) :
                   (ProcessedFrame(k) /\ UnknownFrame(k - 1) /\ sent[k] = ReqGetInputFocus)
                     => /\ Len(steps[1].reply) = 32
                        /\ B(steps[1].reply, 0) = 1
                        /\ U16(steps[1].reply, 2) = (k - 1) % 65536]_vars

\* the part of C30 that holds: what the dispatcher does with a request of an
\* unknown opcode once the codec hands it one
UnknownOpcodeDispatch ==
    [][\A before \in {Engine} : \A after \in {Engine'} : \A steps \in {last'} :
          (impl \in {"native", "web"} /\ closed' = closed
             /\ (nread' # nread \/ pending' # pending))
          => /\ \A n \in 1..Len(steps) :
                   IsUnknownTurn(steps[n])
                     => /\ steps[n].res = "ok"
                        /\ steps[n].reply = <<>>
                        /\ steps[n].seq1 = (steps[n].seq0 + 1) % 65536
                        /\ \E k \in 2..Len(sent) :
                              /\ steps[n].start = FrameStart(k)
                              /\ steps[n].consumed = Len(sent[k])
             /\ \A k \in 2..Len(sent) :
                   (ProcessedFrame(k) /\ UnknownFrame(k))
                     => /\ out' = <<>>
                        /\ after.state = before.state
                        /\ after.handler =
                              IF impl = "native"
                              THEN [before.handler EXCEPT !.sequence = (@ + 1) % 65536]
                              ELSE before.handler
                        /\ after.server =
                              IF impl = "web"
                              THEN [before.server EXCEPT !.sequence = (@ + 1) % 65536]
                              ELSE before.server]_vars

\* an unknown request has gone through the dispatcher of the native or the
\* web engine, after a window was created, and the GetInputFocus behind it
\* has just been answered
AbsorbedThenAnswered ==
    /\ impl \in {"native", "web"}
    /\ Len(sent) = 4
    /\ sent[2] = ReqCreateWindowAt(W1, Root, 0, 0, 1, 1)
    /\ UnknownFrame(3)
    /\ sent[4] = ReqGetInputFocus
    /\ Len(last) = 1
    /\ last[1].start = FrameStart(4)
    /\ last[1].seq0 = 2 /\ last[1].seq1 = 3
    /\ Len(last[1].reply) = 32

----------------------------------------------------------------------------
(* The length word of the connection reply *)

\* screen sizes the servers are started with
ScreenSizes == {1, 2, 5}

\* the additional-length word of a connection reply counts the 4-byte words
\* behind its first 8 bytes, and the reply is a whole number of words
LengthWordExact(reply) ==
    /\ Len(reply) >= 8
    /\ Len(reply) % 4 = 0
    /\ U16(reply, 6) * 4 = Len(reply) - 8

\* C31: in the connection setup reply the additional-length word at bytes
\* 6..8 equals (total reply bytes - 8) / 4 exactly and the total length is a
\* multiple of 4, for the vendor string of each of the three servers and for
\* every screen size: both for the reply a run has just emitted and for the
\* reply each server builds at each screen size.
C31_SetupLengthWord ==
    /\ \A n \in 1..Len(last) :
          (last[n].kind = "setup" /\ last[n].reply # <<>>) => LengthWordExact(last[n].reply)
    /\ \A w \in ScreenSizes : \A h \in ScreenSizes :
          /\ LengthWordExact(Native_connection_reply(ClientHandler_new, DisplayState_new(w, h)))
          /\ LengthWordExact(Web_build_connection_reply(X11Server_new(w, h)))
    /\ LengthWordExact(Test_connection_reply(TestServer_new))

\* a server has just answered a setup frame with its connection reply
C31_SetupAnswered ==
    /\ Len(last) = 1
    /\ last[1].kind = "setup"
    /\ Len(last[1].reply) > 8
    /\ out = <<last[1].reply>>

----------------------------------------------------------------------------
(* Handlers and the bytes buffered behind their frame *)

\* what the engine of this run does with the frame alone, from the engine
\* state e: the engine state it leaves and the bytes it returns
OnFrameAlone(e, frame) ==
    CASE impl = "native" ->
           LET r == Native_process(e.handler, e.state, frame)
           IN  [engine |-> [e EXCEPT !.handler = r.h, !.state = r.st], reply |-> r.reply]
      [] impl = "test" ->
           LET r == Test_process(e.tserver, frame)
           IN  [engine |-> [e EXCEPT !.tserver = r.t], reply |-> r.reply]
      [] impl = "web" ->
           LET r == Web_process_request(e.server, frame)
           IN  [engine |-> [e EXCEPT !.server = r.s], reply |-> r.reply]

\* C32: a handler acts only on its own frame: a step that processes a
\* PolyFillRectangle or a QueryColors frame leaves the engine in the state,
\* and returns the bytes, that processing the frame alone gives, whatever is
\* buffered behind the frame; and in every turn of a step that answers a
\* QueryColors frame the reply holds one 8-byte colour per pixel of the frame.
C32_OwnFrameOnly ==
    [][\A before \in {Engine} : \A after \in {Engine'} : \A steps \in {last'} :
          \A k \in 2..Len(sent) :
              /\ (ProcessedFrame(k) /\ B(sent[k], 0) \in {70, 91})
                    => /\ after = OnFrameAlone(before, sent[k]).engine
                       /\ steps[1].reply = OnFrameAlone(before, sent[k]).reply
              /\ \A n \in 1..Len(steps) :
                    (/\ closed' = closed
                     /\ nread' # nread \/ pending' # pending
                     /\ steps[n].kind = "request" /\ steps[n].res = "ok"
                     /\ steps[n].start = FrameStart(k)
                     /\ B(sent[k], 0) = 91)
                    => Len(steps[n].reply) = 32 + 8 * ((Len(sent[k]) - 8) \div 4)]_vars

----------------------------------------------------------------------------
(* Cycles in the window tree *)

\* the windows reached from w by one or more steps along the child lists
ChildrenOf(w) ==
    {c \in DOMAIN Windows : \E i \in 1..Len(Windows[w].children) : Windows[w].children[i] = c}
StrictlyBelow(w) == Below(ChildrenOf(w), Cardinality(DOMAIN Windows))

\* C33: after any sequence of requests the parent/child relation is acyclic
\* (no window is below itself along the child lists, none is its own ancestor
\* along the parent fields) and the mapped-window traversal from the root
\* terminates.  (The recursive DestroyWindow of window.rs removes a window
\* before it descends, so it terminates on every store.)
C33_TreeAcyclic ==
    impl # "test" =>
        /\ \A w \in DOMAIN Windows : w \notin StrictlyBelow(w)
        /\ \A w \in DOMAIN Windows : w \notin Ancestors(Windows, w)
        /\ ~MappedWindows.panicked

----------------------------------------------------------------------------
(* ChangeGC *)

\* the number of set bits of v
RECURSIVE Popcount(_)
Popcount(v) == IF v = 0 THEN 0 ELSE (v % 2) + Popcount(v \div 2)

\* word `index` of the value list of a ChangeGC frame
GCValue(frame, index) == U32(frame, 12 + 4 * index)

\* C34: ChangeGC reads its values in mask-bit order, one 4-byte word per set
\* bit: the foreground (bit 0x04) comes from word popcount(value_mask & 0x03),
\* the background (bit 0x08) from word popcount(value_mask & 0x07), and every
\* field of the GC whose mask bit is clear keeps its value.
C34_ChangeGCValueOrder ==
    [][\A before \in {server} : \A after \in {server'} :
          \A k \in 2..Len(sent) :
              (/\ impl = "web"
               /\ ProcessedFrame(k)
               /\ B(sent[k], 0) = 56
               /\ Has(before.gcs, U32(sent[k], 4)))
              => LET gc == U32(sent[k], 4)
                     value_mask == U32(sent[k], 8)
                 IN  /\ Has(after.gcs, gc)
                     /\ after.gcs[gc].foreground =
                           IF Bit(value_mask, 4)
                           THEN GCValue(sent[k], Popcount(value_mask % 4))
                           ELSE before.gcs[gc].foreground
                     /\ after.gcs[gc].background =
                           IF Bit(value_mask, 8)
                           THEN GCValue(sent[k], Popcount(value_mask % 8))
                           ELSE before.gcs[gc].background
                     /\ after.gcs[gc].id = before.gcs[gc].id
                     /\ after.gcs[gc].drawable = before.gcs[gc].drawable]_vars

----------------------------------------------------------------------------
(* The modifier mask *)

\* the modifier-to-keycode table of update_modifiers, as the claim lists it
ModifierKeys == <<[bit |-> 1, keycodes |-> {50, 62}], [bit |-> 4, keycodes |-> {37, 105}],
                  [bit |-> 8, keycodes |-> {64, 108}], [bit |-> 64, keycodes |-> {133, 134}]>>

\* C35: after any sequence of key presses and releases each modifier bit of
\* the keyboard mask is set if and only if at least one keycode of that
\* modifier is pressed.
C35_ModifierMask ==
    impl = "web" =>
        \A m \in 1..Len(ModifierKeys) :
            Bit(server.keyboard.modifiers, ModifierKeys[m].bit)
                <=> (server.keyboard.pressed \cap ModifierKeys[m].keycodes # {})

----------------------------------------------------------------------------
(* the connection loops as functions of the bytes read so far *)

\* display.rs handle_client: the inner loop run on `pending` until it breaks
RECURSIVE Native_run(_, _, _, _)
Native_run(h, st, buf, replies) ==
    IF Len(buf) < Native_needed(h, buf)
    THEN [engine |-> <<h, st>>, buf |-> buf, replies |-> replies, res |-> "ok"]
    ELSE LET r == Native_process(h, st, buf)
         IN  IF r.panic
             THEN [engine |-> <<r.h, r.st>>, buf |-> buf, replies |-> replies,
                   res |-> "panic"]
             ELSE Native_run(r.h, r.st, Drain(buf, Native_needed(h, buf)),
                             IF r.reply = <<>> THEN replies
                             ELSE Append(replies, r.reply))

\* test_server.rs handle_client: the inner loop run on `pending` until it breaks
RECURSIVE Test_run(_, _, _, _)
Test_run(t, conn, buf, replies) ==
    IF Len(buf) < Test_needed(conn, buf)
    THEN [engine |-> <<t, conn>>, buf |-> buf, replies |-> replies, res |-> "ok"]
    ELSE LET r == Test_process(t, buf)
         IN  IF r.panic
             THEN [engine |-> <<r.t, conn>>, buf |-> buf, replies |-> replies,
                   res |-> "panic"]
             ELSE Test_run(r.t, conn \/ r.reply # <<>>,
                           Drain(buf, Test_needed(conn, buf)),
                           IF r.reply = <<>> THEN replies
                           ELSE Append(replies, r.reply))

\* a connection that has read nothing yet
Connection_new(i) ==
    [engine |-> CASE i = "native" ->
                      <<ClientHandler_new, DisplayState_new(ScreenWidth, ScreenHeight)>>
                  [] i = "test" -> <<TestServer_new, FALSE>>
                  [] i = "web" -> <<X11Server_new(ScreenWidth, ScreenHeight)>>,
     buf |-> <<>>, replies |-> <<>>, res |-> "ok"]

\* one read of `chunk` on connection c: pending.extend_from_slice(&buf[..n])
\* and the inner loop (native, test); one call process_x11_data(chunk) (web)
Connection_read(i, c, chunk) ==
    IF c.res = "panic" THEN c
    ELSE CASE i = "native" ->
                Native_run(c.engine[1], c.engine[2], c.buf \o chunk, c.replies)
           [] i = "test" ->
                Test_run(c.engine[1], c.engine[2], c.buf \o chunk, c.replies)
           [] i = "web" ->
                LET r == Web_loop(c.engine[1], c.buf \o chunk, <<>>, <<>>, 0)
                IN  [engine |-> <<r.s>>, buf |-> r.buf,
                     replies |-> c.replies \o r.replies,
                     res |-> IF r.res = "panic" THEN "panic" ELSE "ok"]

RECURSIVE Connection_reads(_, _, _)
Connection_reads(i, c, chunks) ==
    IF chunks = <<>> THEN c
    ELSE Connection_reads(i, Connection_read(i, c, Head(chunks)), Tail(chunks))

\* the bytes the client has written on this connection
Stream == Concat(sent)

\* C36: the replies, their order, the engine's state and its sequence counter
\* after a connection's byte stream are the same whether the stream arrives
\* in one read or split into two reads at any byte.
C36_ChunkingIndependent ==
    closed = <<>> =>
        \A cut \in 1..(Len(Stream) - 1) :
            Connection_reads(impl, Connection_new(impl),
                             <<SubSeq(Stream, 1, cut),
                               SubSeq(Stream, cut + 1, Len(Stream))>>)
                = Connection_reads(impl, Connection_new(impl), <<Stream>>)

\* the replies of the requests a call of process_x11_data consumed, in order
RECURSIVE ConsumedReplies(_)
ConsumedReplies(steps) ==
    IF steps = <<>> THEN <<>>
    ELSE (IF Head(steps).res = "ok" /\ Head(steps).consumed > 0
             /\ Head(steps).reply # <<>>
          THEN <<Head(steps).reply>> ELSE <<>>) \o ConsumedReplies(Tail(steps))

\* C37: a call of process_x11_data hands back the reply of every request it
\* consumed, also when a later request of the same call fails.
C37_RepliesOfConsumedRequests ==
    [][(impl = "web" /\ nread' > nread) => out' = ConsumedReplies(last')]_vars

----------------------------------------------------------------------------
(* the web bridge and the mirror input channel *)

InitBridge == InitOf({"bridge"}) /\ impl = "web" /\ ~overflow_checks
SpecBridge == InitBridge /\ [][NextBridge]_vars

InitMirror == InitOf({"mirror"}) /\ impl = "native" /\ ~overflow_checks
SpecMirror == InitMirror /\ [][NextMirror]_vars

\* C38: whatever the bridge writes to the socket of an X11 client connection
\* answers a chunk that this connection wrote: never a chunk of another
\* client, never one of an earlier connection.
C38_BridgeKeepsConnectionsApart ==
    \A c \in 1..Len(bridge.conns) :
        \A k \in 1..Len(bridge.conns[c].received) :
            bridge.conns[c].received[k].conn = c

\* C40: the messages handle_input has decoded are the messages the mirror
\* client wrote, in order, each with its type, its fields and its byte count.
C40_MirrorInputDecoded ==
    /\ Len(mirror.decoded) <= Len(mirror.written)
    /\ \A k \in 1..Len(mirror.decoded) : mirror.decoded[k] = mirror.written[k]

----------------------------------------------------------------------------
(* x11q-web: reset_connection after input events *)

NextReset == NextEvents \/ NewConnection

InitReset == InitOf({"events"}) /\ impl = "web" /\ ~overflow_checks
SpecReset == InitReset /\ [][NextReset]_vars

\* the page has called reset_connection in this step
ResetConnection == impl = "web" /\ Len(closed') = Len(closed) + 1

\* C39: after reset_connection the server is as X11Server::new leaves it:
\* AwaitingSetup, sequence 0, no queued event, empty input buffer, only the
\* root window, no pixmap, no GC, only the predefined atoms, focus on the
\* root, pointer at the origin with no button, and no modifier set.
C39_ResetLikeNew ==
    [][ResetConnection =>
          \A fresh \in {X11Server_new(ScreenWidth, ScreenHeight)} :
              /\ server'.state = fresh.state
              /\ server'.sequence = fresh.sequence
              /\ server'.events = fresh.events
              /\ pending' = <<>>
              /\ server'.windows = fresh.windows
              /\ server'.pixmaps = fresh.pixmaps
              /\ server'.gcs = fresh.gcs
              /\ server'.atoms = fresh.atoms
              /\ server'.focus = fresh.focus
              /\ server'.pointer = fresh.pointer
              /\ server'.keyboard.modifiers = fresh.keyboard.modifiers]_vars

====
